---------------------------- MODULE Spec2Model ----------------------------
(***************************************************************************)
(* Model of the report management daemon (daemon.c, file_operations.c,     *)
(* backup.c): the scheduler loop with its signal flags, the locked         *)
(* transfer/backup pipeline and the snapshot-based change detection.       *)
(***************************************************************************)
EXTENDS Integers, Sequences, FiniteSets, TLC

(***************************************************************************)
(* Program constants (report_system.h, daemon.c).                          *)
(***************************************************************************)
SUCCESS == 0
FAILURE == -1
TRANSFER_HOUR == 1
TRANSFER_MINUTE == 0
\* 0777, 0755 and 0000 in decimal
UPLOAD_PERMISSIONS == 511
DASHBOARD_PERMISSIONS == 493
LOCKED_PERMISSIONS == 0
\* the literal 5 of "now - last_check >= 5"
CHECK_INTERVAL == 5
\* the missing-report count returned when the dashboard cannot be opened
ALL_MISSING == 4
\* the size of the department and owner buffers
MAX_USER_LENGTH == 256
\* two of the message types of report_system.h
MSG_BACKUP_COMPLETE == 2
MSG_TRANSFER_COMPLETE == 4

(***************************************************************************)
(* Bounds of the model.                                                    *)
(***************************************************************************)
\* modification times are drawn from 0..MaxMtime
MaxMtime == 1
\* how many times a read of the clock may find that time has passed
MaxTicks == 2
\* how many things happen to the daemon from outside: a signal delivered or
\* a system call that fails
MaxEvents == 1
\* how many characters stand between the head and the tail of a file name
MaxBody == 2
\* sizeof(IPCMessage), in units a read or a write can be cut at
RecordUnits == 2
\* the chunks of 4096 bytes copy_file reads from a file
MaxChunks == 2
\* how many units the FIFO holds before a write fails with EAGAIN
PipeUnits == 4
\* how many times create_reporting_process is called
MaxWorkers == 2

(***************************************************************************)
(* File names.  A name is a string; Chars gives its characters so that     *)
(* strstr, strncmp and strchr can be computed as the C library does.       *)
(***************************************************************************)
Names ==
    {"report_Sales_1.xml", "invoice.xml", "notes.txt", ".tmp.xml", "old.xml",
     "report_Warehouse.xml", "report_manufacturing_2.xml", "report_Distribution_1.xml"}

\* names that other processes create as subdirectories (d_type == DT_DIR)
DirNames == {"old.xml"}

Chars(n) ==
    CASE n = "report_Sales_1.xml" ->
           <<"r", "e", "p", "o", "r", "t", "_", "S", "a", "l", "e", "s", "_",
             "1", ".", "x", "m", "l">>
      [] n = "invoice.xml" -> <<"i", "n", "v", "o", "i", "c", "e", ".", "x", "m", "l">>
      [] n = "notes.txt" -> <<"n", "o", "t", "e", "s", ".", "t", "x", "t">>
      [] n = ".tmp.xml" -> <<".", "t", "m", "p", ".", "x", "m", "l">>
      [] n = "old.xml" -> <<"o", "l", "d", ".", "x", "m", "l">>
      [] n = "report_Warehouse.xml" ->
           <<"r", "e", "p", "o", "r", "t", "_", "W", "a", "r", "e", "h", "o", "u",
             "s", "e", ".", "x", "m", "l">>
      [] n = "report_manufacturing_2.xml" ->
           <<"r", "e", "p", "o", "r", "t", "_", "m", "a", "n", "u", "f", "a", "c",
             "t", "u", "r", "i", "n", "g", "_", "2", ".", "x", "m", "l">>
      [] n = "report_Distribution_1.xml" ->
           <<"r", "e", "p", "o", "r", "t", "_", "D", "i", "s", "t", "r", "i", "b",
             "u", "t", "i", "o", "n", "_", "1", ".", "x", "m", "l">>

REPORT_EXTENSION == <<".", "x", "m", "l">>
REPORT_PREFIX == <<"r", "e", "p", "o", "r", "t", "_">>

\* strstr(s, t): the first index at which t occurs in s, 0 (NULL) when none
strstr(s, t) ==
    LET hits == {i \in 1..(Len(s) - Len(t) + 1) : SubSeq(s, i, i + Len(t) - 1) = t}
    IN  IF hits = {} THEN 0 ELSE CHOOSE i \in hits : \A j \in hits : i <= j

(***************************************************************************)
(* Directories.  A directory maps every name to its entry; an absent name  *)
(* has kind "none".                                                        *)
(***************************************************************************)
Uids == {1000, 1001}
\* the uids getpwuid resolves, and the name it gives
KnownUids == {1000}
Contents == {"x"}
MTimes == 0..MaxMtime

NoFile == [kind |-> "none", mtime |-> 0, uid |-> 0, data |-> ""]
RegFile(m, u, d) == [kind |-> "file", mtime |-> m, uid |-> u, data |-> d]
SubDir == [kind |-> "dir", mtime |-> 0, uid |-> 0, data |-> ""]
EmptyDir == [n \in Names |-> NoFile]

\* all orders in which readdir can return the names of S
RECURSIVE Orders(_)
Orders(S) ==
    IF S = {} THEN {<<>>}
    ELSE UNION {{<<n>> \o rest : rest \in Orders(S \ {n})} : n \in S}

\* getpwuid(uid)->pw_name, or the numeric identity when there is no entry
OwnerName(uid) == IF uid \in KnownUids THEN "user" ELSE ToString(uid)

(***************************************************************************)
(* scan_directory: every non-directory, non-hidden entry whose stat        *)
(* succeeds, in readdir order.  opendir or malloc can fail (FAILURE); the  *)
(* stat of any entry can fail (entry skipped).  The array holds 10 entries *)
(* before realloc, more than the model's directories hold.  failed counts  *)
(* the calls that failed.                                                  *)
(***************************************************************************)
Snapshot(dir, n) ==
    [filename |-> n, timestamp |-> dir[n].mtime, owner |-> OwnerName(dir[n].uid)]

Scannable(dir) == {n \in Names : dir[n].kind = "file" /\ Chars(n)[1] # "."}

\* the mutant of ScanOutcome: the first stat that fails ends the scan
ScanAbortsOnStat(dir, opened, alloc_ok, readable) ==
    IF ~opened \/ ~alloc_ok \/ ~(Scannable(dir) \subseteq readable)
    THEN {[rc |-> FAILURE, files |-> <<>>, failed |-> 1]}
    ELSE {[rc |-> SUCCESS, files |-> [i \in 1..Len(ord) |-> Snapshot(dir, ord[i])],
           failed |-> 0] : ord \in Orders(Scannable(dir))}
\* scan_directory when opendir and malloc succeed or not and stat succeeds
\* on the entries of readable, one result for each order of readdir
ScanOutcome(dir, opened, alloc_ok, readable) ==
    IF ~opened \/ ~alloc_ok
    THEN {[rc |-> FAILURE, files |-> <<>>, failed |-> 1]}
    ELSE {[rc |-> SUCCESS, files |-> [i \in 1..Len(ord) |-> Snapshot(dir, ord[i])],
           failed |-> Cardinality(Scannable(dir) \ readable)] :
            ord \in Orders(Scannable(dir) \cap readable)}

scan_directory(dir) ==
    UNION {ScanOutcome(dir, opened, alloc_ok, readable) :
             opened \in BOOLEAN, alloc_ok \in BOOLEAN,
             readable \in SUBSET Scannable(dir)}

(***************************************************************************)
(* monitor_directory_changes.                                              *)
(***************************************************************************)
Event(user, file, action) == [username |-> user, filename |-> file, action |-> action]

\* index of the first entry of files named name, 0 when there is none
IndexOf(files, name) ==
    LET hits == {j \in 1..Len(files) : files[j].filename = name}
    IN  IF hits = {} THEN 0 ELSE CHOOSE j \in hits : \A k \in hits : j <= k

\* the mutant of IsModified: any difference of the times counts
IsModifiedAnyDiff(cur, prev) == cur.timestamp # prev.timestamp
\* current_files[i].timestamp > previous_files[j].timestamp
IsModified(cur, prev) == cur.timestamp > prev.timestamp

\* first loop: new or modified files, in the order of current_files
RECURSIVE NewOrModified(_, _, _)
NewOrModified(cur, prev, i) ==
    IF i > Len(cur) THEN <<>>
    ELSE LET j == IndexOf(prev, cur[i].filename)
             ev == IF j = 0
                   THEN <<Event(cur[i].owner, cur[i].filename, "create")>>
                   ELSE IF IsModified(cur[i], prev[j])
                        THEN <<Event(cur[i].owner, cur[i].filename, "modify")>>
                        ELSE <<>>
         IN  ev \o NewOrModified(cur, prev, i + 1)

\* second loop: deleted files, in the order of previous_files
RECURSIVE Deleted(_, _, _)
Deleted(cur, prev, j) ==
    IF j > Len(prev) THEN <<>>
    ELSE LET ev == IF IndexOf(cur, prev[j].filename) = 0
                   THEN <<Event(prev[j].owner, prev[j].filename, "delete")>>
                   ELSE <<>>
         IN  ev \o Deleted(cur, prev, j + 1)

\* the mutant of CompareScans: the second loop is missing
CompareScansNoDeleted(cur, prev) == NewOrModified(cur, prev, 1)
\* the mutant of CompareScans: deletions are logged first
CompareScansDeletedFirst(cur, prev) ==
    Deleted(cur, prev, 1) \o NewOrModified(cur, prev, 1)
\* the records monitor_directory_changes passes to log_file_change, in order
CompareScans(cur, prev) ==
    NewOrModified(cur, prev, 1) \o Deleted(cur, prev, 1)

\* previous_files == NULL: no scan has been stored yet
NullFiles == [null |-> TRUE, items |-> <<>>]
Stored(files) == [null |-> FALSE, items |-> files]

\* the mutant of Monitor: the first scan is compared with an empty inventory
MonitorNoPriming(prev, scan) ==
    IF scan.rc # SUCCESS
    THEN [rc |-> FAILURE, log |-> <<>>, previous |-> prev]
    ELSE [rc |-> SUCCESS,
          log |-> CompareScans(scan.files, prev.items),
          previous |-> Stored(scan.files)]
\* the mutant of Monitor: a failed scan drops the stored inventory
MonitorForgetsOnFailure(prev, scan) ==
    IF scan.rc # SUCCESS
    THEN [rc |-> FAILURE, log |-> <<>>, previous |-> NullFiles]
    ELSE IF prev.null
         THEN [rc |-> SUCCESS, log |-> <<>>, previous |-> Stored(scan.files)]
         ELSE [rc |-> SUCCESS,
               log |-> CompareScans(scan.files, prev.items),
               previous |-> Stored(scan.files)]
\* the mutant of Monitor: the stored inventory is that of the first scan
MonitorKeepsFirst(prev, scan) ==
    IF scan.rc # SUCCESS
    THEN [rc |-> FAILURE, log |-> <<>>, previous |-> prev]
    ELSE IF prev.null
         THEN [rc |-> SUCCESS, log |-> <<>>, previous |-> Stored(scan.files)]
         ELSE [rc |-> SUCCESS,
               log |-> CompareScans(scan.files, prev.items),
               previous |-> prev]
\* monitor_directory_changes on the outcome of its scan: the result, the
\* records logged and the new value of previous_files
Monitor(prev, scan) ==
    IF scan.rc # SUCCESS
    THEN [rc |-> FAILURE, log |-> <<>>, previous |-> prev]
    ELSE IF prev.null
         THEN [rc |-> SUCCESS, log |-> <<>>, previous |-> Stored(scan.files)]
         ELSE [rc |-> SUCCESS,
               log |-> CompareScans(scan.files, prev.items),
               previous |-> Stored(scan.files)]

(***************************************************************************)
(* localtime: the hour and minute of a time in seconds (no zone offset).   *)
(***************************************************************************)
tm_hour(t) == (t \div 3600) % 24
tm_min(t) == (t \div 60) % 60

\* the mutant of TransferDue: the minute is not compared
TransferDueAnyMinute(t, flag) == tm_hour(t) = TRANSFER_HOUR \/ flag = 1
\* (tm_hour == TRANSFER_HOUR && tm_min == TRANSFER_MINUTE) || force_transfer
TransferDue(t, flag) ==
    (tm_hour(t) = TRANSFER_HOUR /\ tm_min(t) = TRANSFER_MINUTE) \/ flag = 1

\* the mutant of MonitorDue: the interval must be exceeded
MonitorDueStrict(t, last, flag) == t - last > CHECK_INTERVAL \/ flag = 1
\* now - last_check >= 5 || force_backup
MonitorDue(t, last, flag) == t - last >= CHECK_INTERVAL \/ flag = 1

(***************************************************************************)
(* lock_directories / unlock_directories: chmod on both directories; ok1   *)
(* and ok2 say whether each chmod succeeds.                                *)
(***************************************************************************)
set_directory_permissions(old, mode, ok) ==
    [mode |-> IF ok THEN mode ELSE old, rc |-> IF ok THEN SUCCESS ELSE FAILURE]

\* a lock that gives up when the first chmod fails
LockStopsAtFirstFailure(um, dm, ok1, ok2) ==
    LET a == set_directory_permissions(um, LOCKED_PERMISSIONS, ok1)
        b == set_directory_permissions(dm, LOCKED_PERMISSIONS, ok2)
    IN  IF a.rc = FAILURE
        THEN [upload_mode |-> a.mode, dashboard_mode |-> dm, rc |-> FAILURE]
        ELSE [upload_mode |-> a.mode, dashboard_mode |-> b.mode, rc |-> b.rc]

lock_directories(um, dm, ok1, ok2) ==
    LET a == set_directory_permissions(um, LOCKED_PERMISSIONS, ok1)
        b == set_directory_permissions(dm, LOCKED_PERMISSIONS, ok2)
    IN  [upload_mode |-> a.mode, dashboard_mode |-> b.mode,
         rc |-> IF a.rc = SUCCESS /\ b.rc = SUCCESS THEN SUCCESS ELSE FAILURE]

unlock_directories(um, dm, ok1, ok2) ==
    LET a == set_directory_permissions(um, UPLOAD_PERMISSIONS, ok1)
        b == set_directory_permissions(dm, DASHBOARD_PERMISSIONS, ok2)
    IN  [upload_mode |-> a.mode, dashboard_mode |-> b.mode,
         rc |-> IF a.rc = SUCCESS /\ b.rc = SUCCESS THEN SUCCESS ELSE FAILURE]

(***************************************************************************)
(* move_file and transfer_reports.  Every entry that is not a directory    *)
(* and whose name contains the extension is moved; how[n] is what happens  *)
(* to n:                                                                   *)
(*   "renamed"        rename succeeds                                      *)
(*   "copied"         rename fails, copy_file and unlink succeed           *)
(*   "unlink_failed"  rename fails, copy_file succeeds, unlink fails       *)
(*   "copy_failed"    rename fails, copy_file fails before writing         *)
(*   "copy_partial"   rename fails, copy_file fails after opening the      *)
(*                    destination, which is left truncated or partial      *)
(* and stat_ok[n] whether the stat of get_file_owner on the destination    *)
(* succeeds.                                                               *)
(***************************************************************************)
DaemonUid == CHOOSE u \in KnownUids : TRUE
MoveOutcomes == {"renamed", "copied", "unlink_failed", "copy_failed", "copy_partial"}
Moved(outcome) == outcome \in {"renamed", "copied"}

HasExtension(n) == strstr(Chars(n), REPORT_EXTENSION) # 0
Matched(dir) == {n \in Names : dir[n].kind = "file" /\ HasExtension(n)}

\* what copy_file leaves at the destination: the source's bytes in a file
\* that keeps its owner when it existed and is the daemon's otherwise
CopyOfEmpty(src, dst, data) ==
    RegFile(MaxMtime, IF dst.kind = "file" THEN dst.uid ELSE DaemonUid, "")

CopyOf(src, dst, data) ==
    RegFile(MaxMtime, IF dst.kind = "file" THEN dst.uid ELSE DaemonUid, data)

SourceAfter(src, outcome) == IF Moved(outcome) THEN NoFile ELSE src

\* a copy that leaves an older file of the destination as it was
DestAfterKeepsOld(src, dst, outcome) ==
    CASE outcome = "renamed" -> src
      [] outcome \in {"copied", "unlink_failed"} ->
            IF dst.kind = "file" THEN dst ELSE CopyOf(src, dst, src.data)
      [] outcome = "copy_partial" -> CopyOf(src, dst, "partial")
      [] OTHER -> dst

DestAfter(src, dst, outcome) ==
    CASE outcome = "renamed" -> src
      [] outcome \in {"copied", "unlink_failed"} -> CopyOf(src, dst, src.data)
      [] outcome = "copy_partial" -> CopyOf(src, dst, "partial")
      [] OTHER -> dst

\* get_file_owner: FAILURE when stat fails or getpwuid finds no entry
get_file_owner(file, stat_ok) ==
    IF ~stat_ok THEN [rc |-> FAILURE, owner |-> ""]
    ELSE IF file.uid \notin KnownUids
         THEN [rc |-> FAILURE, owner |-> ToString(file.uid)]
         ELSE [rc |-> SUCCESS, owner |-> OwnerName(file.uid)]

\* the calls of a transfer that fail: a rename, a copy, an unlink, a stat
TransferFaults(src, how, stat_ok) ==
    Cardinality({n \in Matched(src) : how[n] # "renamed"})
        + Cardinality({n \in Matched(src) : ~stat_ok[n]})

\* the "transfer" records of the files of order, in that order
RECURSIVE TransferLog(_, _, _, _, _)
TransferLog(src, dst, how, stat_ok, order) ==
    IF order = <<>> THEN <<>>
    ELSE LET n == Head(order)
             o == get_file_owner(DestAfter(src[n], dst[n], how[n]), stat_ok[n])
             ev == IF Moved(how[n]) /\ o.rc = SUCCESS
                   THEN <<Event(o.owner, n, "transfer")>> ELSE <<>>
         IN  ev \o TransferLog(src, dst, how, stat_ok, Tail(order))

\* a transfer that puts every file back when one move fails
TransferAllOrNothing(src, dst, how, stat_ok, order) ==
    LET matched == Matched(src)
        all == \A n \in matched : Moved(how[n])
    IN  [upload |-> [n \in Names |-> IF all /\ n \in matched
                                     THEN SourceAfter(src[n], how[n]) ELSE src[n]],
         dashboard |-> [n \in Names |-> IF all /\ n \in matched
                                        THEN DestAfter(src[n], dst[n], how[n])
                                        ELSE dst[n]],
         log |-> IF all THEN TransferLog(src, dst, how, stat_ok, order) ELSE <<>>,
         rc |-> IF all THEN SUCCESS ELSE FAILURE]

\* a transfer that reports FAILURE when it found nothing to move
TransferNothingIsFailure(src, dst, how, stat_ok, order) ==
    LET matched == Matched(src)
    IN  [upload |-> [n \in Names |-> IF n \in matched
                                     THEN SourceAfter(src[n], how[n]) ELSE src[n]],
         dashboard |-> [n \in Names |-> IF n \in matched
                                        THEN DestAfter(src[n], dst[n], how[n])
                                        ELSE dst[n]],
         log |-> TransferLog(src, dst, how, stat_ok, order),
         rc |-> IF matched # {} /\ \A n \in matched : Moved(how[n])
                THEN SUCCESS ELSE FAILURE]

\* transfer_reports when opendir succeeds and readdir gives order
transfer_reports(src, dst, how, stat_ok, order) ==
    LET matched == Matched(src)
    IN  [upload |-> [n \in Names |-> IF n \in matched
                                     THEN SourceAfter(src[n], how[n]) ELSE src[n]],
         dashboard |-> [n \in Names |-> IF n \in matched
                                        THEN DestAfter(src[n], dst[n], how[n])
                                        ELSE dst[n]],
         log |-> TransferLog(src, dst, how, stat_ok, order),
         rc |-> IF \A n \in matched : Moved(how[n]) THEN SUCCESS ELSE FAILURE]

(***************************************************************************)
(* extract_department_from_filename and check_missing_reports.             *)
(***************************************************************************)
\* strrchr(s, c): the last index of character c in s, 0 (NULL) when none
strrchr(s, c) ==
    LET hits == {i \in 1..Len(s) : s[i] = c}
    IN  IF hits = {} THEN 0 ELSE CHOOSE i \in hits : \A j \in hits : i >= j
\* strchr(s, c): the first index of character c in s, 0 (NULL) when none
strchr(s, c) == strstr(s, <<c>>)

\* the result of extract_department_from_filename: found = FALSE is NULL
NoDepartment == [found |-> FALSE, label |-> <<>>]
extract_department_from_filename(name) ==
    LET plen == Len(REPORT_PREFIX)
    IN  IF Len(name) < plen \/ SubSeq(name, 1, plen) # REPORT_PREFIX
        THEN NoDepartment
        ELSE LET start == SubSeq(name, plen + 1, Len(name))
                 us == strchr(start, "_")
                 ext == strstr(start, REPORT_EXTENSION)
                 end == IF us # 0 THEN us ELSE ext
                 length == IF end - 1 >= MAX_USER_LENGTH
                           THEN MAX_USER_LENGTH - 1 ELSE end - 1
             IN  IF end = 0 THEN NoDepartment
                 ELSE [found |-> TRUE, label |-> SubSeq(start, 1, length)]

tolower(c) ==
    CASE c = "D" -> "d" [] c = "M" -> "m" [] c = "S" -> "s" [] c = "W" -> "w"
      [] OTHER -> c
\* strcmp(a, b) == 0
SameLabelExact(a, b) == a = b
\* strcasecmp(a, b) == 0
SameLabel(a, b) ==
    Len(a) = Len(b) /\ \A i \in 1..Len(a) : tolower(a[i]) = tolower(b[i])

DEPT_WAREHOUSE == <<"W", "a", "r", "e", "h", "o", "u", "s", "e">>
DEPT_MANUFACTURING ==
    <<"M", "a", "n", "u", "f", "a", "c", "t", "u", "r", "i", "n", "g">>
DEPT_SALES == <<"S", "a", "l", "e", "s">>
DEPT_DISTRIBUTION ==
    <<"D", "i", "s", "t", "r", "i", "b", "u", "t", "i", "o", "n">>
department_reports ==
    <<DEPT_WAREHOUSE, DEPT_MANUFACTURING, DEPT_SALES, DEPT_DISTRIBUTION>>

\* check_missing_reports: the number of departments with no report in dir
check_missing_reports(dir, opened) ==
    IF ~opened THEN ALL_MISSING
    ELSE Cardinality({i \in 1..Len(department_reports) :
             ~\E n \in Matched(dir) :
                  LET d == extract_department_from_filename(Chars(n))
                  IN  d.found /\ SameLabel(d.label, department_reports[i])})

(***************************************************************************)
(* backup_dashboard.  The backup directory is named after the second t at  *)
(* which the backup starts; mkdir fails when it exists already (or when    *)
(* made_dir is false).  copied is the set of files whose copy_file         *)
(* succeeds; a failed copy leaves nothing or a partial file, as partial    *)
(* says.                                                                   *)
(***************************************************************************)
BackupFiles(dir) == {n \in Names : dir[n].kind = "file"}

\* the calls of a backup that fail; a step that is not reached cannot fail
BackupFaults(dir, all, t, made_dir, opened, copied) ==
    IF t \in DOMAIN all THEN 0
    ELSE IF ~made_dir THEN 1
    ELSE IF ~opened THEN 1
    ELSE Cardinality(BackupFiles(dir) \ copied)

\* a backup that reports FAILURE as soon as one copy failed
BackupAllOrNothing(dir, all, t, made_dir, opened, copied, partial) ==
    IF t \in DOMAIN all \/ ~made_dir
    THEN [backups |-> all, rc |-> FAILURE]
    ELSE IF ~opened
         THEN [backups |-> all @@ (t :> EmptyDir), rc |-> FAILURE]
         ELSE LET files == BackupFiles(dir)
                  ok == files \cap copied
                  content == [n \in Names |->
                                 IF n \in ok THEN CopyOf(dir[n], NoFile, dir[n].data)
                                 ELSE IF n \in files \cap partial
                                      THEN CopyOf(dir[n], NoFile, "partial")
                                      ELSE NoFile]
              IN  [backups |-> all @@ (t :> content),
                   rc |-> IF Cardinality(ok) = Cardinality(files) THEN SUCCESS
                          ELSE FAILURE]

backup_dashboard(dir, all, t, made_dir, opened, copied, partial) ==
    IF t \in DOMAIN all \/ ~made_dir
    THEN [backups |-> all, rc |-> FAILURE]
    ELSE IF ~opened
         THEN [backups |-> all @@ (t :> EmptyDir), rc |-> FAILURE]
         ELSE LET files == BackupFiles(dir)
                  ok == files \cap copied
                  content == [n \in Names |->
                                 IF n \in ok THEN CopyOf(dir[n], NoFile, dir[n].data)
                                 ELSE IF n \in files \cap partial
                                      THEN CopyOf(dir[n], NoFile, "partial")
                                      ELSE NoFile]
              IN  [backups |-> all @@ (t :> content),
                   rc |-> IF Cardinality(ok) = Cardinality(files) THEN SUCCESS
                          ELSE IF Cardinality(ok) > 0 THEN SUCCESS ELSE FAILURE]

(***************************************************************************)
(* State.                                                                  *)
(***************************************************************************)
VARIABLES
    upload,           \* UPLOAD_DIR: name -> entry
    dashboard,        \* DASHBOARD_DIR: name -> entry
    backups,          \* BACKUP_DIR: start second -> contents of backup_<second>
    upload_mode,      \* permission bits of UPLOAD_DIR
    dashboard_mode,   \* permission bits of DASHBOARD_DIR
    previous_files,   \* previous_files / previous_file_count
    change_log,       \* records passed to log_file_change by the last call
    last_monitor,     \* the last monitor_directory_changes call: its result,
                      \* the scan it made and previous_files as it found it
    clock,            \* the time in seconds that time(NULL) last returned
    ticks,            \* how many reads of the clock found that time had passed
    daemon_exit,      \* the three sig_atomic_t flags of daemon.c
    force_backup,
    force_transfer,
    pc,               \* where daemon_main_loop is
    now,              \* its locals now and last_check
    last_check,
    trace,            \* the calls made so far in this iteration, with results
    obs,              \* the values the tests of this iteration read
    faults,           \* how many system calls have failed
    signals,          \* how many signals have been delivered
    requests,         \* how many of them were SIGUSR2
    forced,           \* how many pipeline runs began outside the scheduled minute
    pid_file,         \* whether PID_FILE exists
    fifo,             \* whether FIFO_PATH exists
    fifo_fd,          \* whether the daemon holds the FIFO open (fifo_fd # -1)
    exit_status,      \* what main() has returned, "none" while it runs
    parent_status,    \* what the process that was forked from has returned
    startup_error,    \* the step of daemon_init that failed, "none" if none
    cleanups,         \* how many times daemon_cleanup has run
    last_call,        \* the last call of a function made on its own: its
                      \* inputs and its result
    input,            \* the argument of the next call of a function called
                      \* on its own
    fifo_data,        \* the records and fragments waiting in the FIFO
    worker            \* the child of create_reporting_process

dirs == <<upload, dashboard, backups>>
modes == <<upload_mode, dashboard_mode>>
engine == <<previous_files, change_log, last_monitor>>
flags == <<daemon_exit, force_backup, force_transfer>>
locals == <<now, last_check>>
counters == <<signals, requests, forced>>
history == <<trace, obs, counters>>
process == <<pid_file, fifo, fifo_fd, exit_status, parent_status, startup_error,
             cleanups>>
\* what daemon_main_loop does not touch
ipc == <<fifo_data, worker>>
apart == <<process, last_call, input, ipc>>
loop_vars == <<backups, clock, ticks, daemon_exit, force_backup, force_transfer,
               pc, now, last_check, trace, obs, faults, counters, apart>>

vars == <<upload, dashboard, backups, upload_mode, dashboard_mode, previous_files,
          change_log, last_monitor, clock, ticks, daemon_exit, force_backup,
          force_transfer, pc, now, last_check, trace, obs, faults, signals,
          requests, forced, pid_file, fifo, fifo_fd, exit_status, parent_status,
          startup_error, cleanups, last_call, input, fifo_data, worker>>

NoCall ==
    [called |-> FALSE, rc |-> SUCCESS, scan_rc |-> SUCCESS, scanned |-> <<>>,
     before |-> NullFiles]

\* the values the tests read; 2 stands for "not read in this iteration"
\* perm: whether each chmod of the lock and unlock calls of this iteration
\* succeeded, in the order of the calls
NoObs == [ft |-> 2, fb1 |-> 2, fb2 |-> 2, last |-> 0, perm |-> <<>>]

\* the daemon starts one second before the scheduled minute (00:59:59)
BootTimes == {3599}
\* the seconds that can pass between two reads of the clock
Elapsed == {1, 4, 60}

\* daemon_init has returned SUCCESS: the PID file is written, the FIFO is
\* open, nothing has exited
Started ==
    /\ pid_file = TRUE /\ fifo = TRUE /\ fifo_fd = TRUE
    /\ exit_status = "none" /\ parent_status = "EXIT_SUCCESS"
    /\ startup_error = "none"
    /\ cleanups = 0

NoLastCall == [op |-> "none"]
\* what is kept of the call before the last one
Summary(c) ==
    IF c.op = "none" THEN c
    ELSE [op |-> c.op, opened |-> c.opened, attempted |-> c.attempted, rc |-> c.rc]

\* no function is called on its own, nothing is in the FIFO, no child
NoInput == [op |-> "none"]
\* no message, and what a read across two messages gives
NoMessage == [type |-> 0, sender_pid |-> 0, status |-> 0, message |-> ""]
CorruptMessage == [type |-> -1, sender_pid |-> -1, status |-> -1, message |-> "?"]
NoWorker ==
    [pc |-> "none", pid |-> 0, msg_type |-> 0, result |-> 0, runs |-> 0, sends |-> 0,
     wrote |-> "nothing", sent |-> NoMessage, ret |-> 0, created |-> 0,
     status |-> "none"]
Quiet == input = NoInput /\ fifo_data = <<>> /\ worker = NoWorker

\* daemon_main_loop is entered: daemon_init has set the permissions, no
\* signal has been delivered, last_check = 0
LoopState ==
    /\ backups = <<>>
    /\ clock \in BootTimes
    /\ ticks = 0
    /\ daemon_exit = 0 /\ force_backup = 0 /\ force_transfer = 0
    /\ pc = "while"
    /\ now = 0 /\ last_check = 0
    /\ trace = <<>>
    /\ obs = NoObs
    /\ faults = 0 /\ signals = 0 /\ requests = 0 /\ forced = 0
    /\ Started
    /\ last_call = NoLastCall

LoopInit == LoopState /\ Quiet

(***************************************************************************)
(* Other processes: uploaders write, touch and remove entries of the       *)
(* upload directory while it is not locked.                                *)
(***************************************************************************)
EnvPut(n, f) ==
    /\ upload_mode # LOCKED_PERMISSIONS
    /\ upload[n].kind # "dir"
    /\ upload' = [upload EXCEPT ![n] = f]

EnvRemove(n) ==
    /\ upload_mode # LOCKED_PERMISSIONS
    /\ upload[n].kind # "none"
    /\ upload' = [upload EXCEPT ![n] = NoFile]

\* the names uploaders use while the change detection engine is exercised
DetectNames == {"report_Sales_1.xml", "notes.txt", ".tmp.xml", "old.xml"}

EntriesFor(n) ==
    IF n \in DirNames THEN {SubDir}
    ELSE {RegFile(m, u, d) : m \in MTimes, u \in {1000}, d \in Contents}

(***************************************************************************)
(* The change detection engine on its own: monitor_directory_changes is    *)
(* called again and again while uploaders change the upload directory.     *)
(***************************************************************************)
DetectInit ==
    /\ upload = EmptyDir
    /\ dashboard = EmptyDir
    /\ upload_mode = UPLOAD_PERMISSIONS
    /\ dashboard_mode = DASHBOARD_PERMISSIONS
    /\ previous_files = NullFiles
    /\ change_log = <<>>
    /\ last_monitor = NoCall
    /\ LoopInit

DetectEnvPut ==
    /\ \E n \in DetectNames : \E f \in EntriesFor(n) : EnvPut(n, f)
    /\ UNCHANGED <<dashboard, upload_mode, dashboard_mode, previous_files,
                   change_log, last_monitor, loop_vars>>

DetectEnvRemove ==
    /\ \E n \in DetectNames : EnvRemove(n)
    /\ UNCHANGED <<dashboard, upload_mode, dashboard_mode, previous_files,
                   change_log, last_monitor, loop_vars>>

DetectCall ==
    /\ \E scan \in scan_directory(upload) :
          LET r == Monitor(previous_files, scan)
          IN  /\ previous_files' = r.previous
              /\ change_log' = r.log
              /\ last_monitor' = [called |-> TRUE, rc |-> r.rc, scan_rc |-> scan.rc,
                                  scanned |-> scan.files, before |-> previous_files]
    /\ UNCHANGED <<upload, dashboard, upload_mode, dashboard_mode, loop_vars>>

DetectNext == DetectEnvPut \/ DetectEnvRemove \/ DetectCall

SpecDetect == DetectInit /\ [][DetectNext]_vars

(***************************************************************************)
(* The same engine, with a note of whether an uploader changed the upload  *)
(* directory since the last successful call of monitor_directory_changes:  *)
(* input.changed says so, input.quiet says that the last successful call   *)
(* found it FALSE.                                                         *)
(***************************************************************************)
RescanInit ==
    /\ upload = EmptyDir
    /\ dashboard = EmptyDir
    /\ upload_mode = UPLOAD_PERMISSIONS
    /\ dashboard_mode = DASHBOARD_PERMISSIONS
    /\ previous_files = NullFiles
    /\ change_log = <<>>
    /\ last_monitor = NoCall
    /\ LoopState
    /\ input = [op |-> "rescan", changed |-> FALSE, quiet |-> FALSE]
    /\ fifo_data = <<>>
    /\ worker = NoWorker

RescanEnvPut ==
    /\ \E n \in DetectNames : \E f \in EntriesFor(n) : f # upload[n] /\ EnvPut(n, f)
    /\ input' = [input EXCEPT !.changed = TRUE]
    /\ UNCHANGED <<dashboard, backups, modes, engine, clock, ticks, flags, pc, locals,
                   history, faults, process, last_call, ipc>>

RescanEnvRemove ==
    /\ \E n \in DetectNames : EnvRemove(n)
    /\ input' = [input EXCEPT !.changed = TRUE]
    /\ UNCHANGED <<dashboard, backups, modes, engine, clock, ticks, flags, pc, locals,
                   history, faults, process, last_call, ipc>>

RescanCall ==
    /\ \E scan \in scan_directory(upload) :
          LET r == Monitor(previous_files, scan)
          IN  /\ previous_files' = r.previous
              /\ change_log' = r.log
              /\ last_monitor' = [called |-> TRUE, rc |-> r.rc, scan_rc |-> scan.rc,
                                  scanned |-> scan.files, before |-> previous_files]
              /\ input' = IF r.rc = SUCCESS
                          THEN [input EXCEPT !.changed = FALSE, !.quiet = ~input.changed]
                          ELSE input
    /\ UNCHANGED <<dirs, modes, clock, ticks, flags, pc, locals, history, faults,
                   process, last_call, ipc>>

RescanNext == RescanEnvPut \/ RescanEnvRemove \/ RescanCall

SpecRescan == RescanInit /\ [][RescanNext]_vars


(***************************************************************************)
(* transfer_reports on its own: it is called again and again on an upload  *)
(* and a dashboard directory drawn from the contents below, with every     *)
(* outcome of every move.                                                  *)
(***************************************************************************)
TransferEntries(n) ==
    CASE n = "report_Sales_1.xml" -> {NoFile, RegFile(0, 1000, "x"), RegFile(1, 1001, "y")}
      [] n = "invoice.xml" -> {NoFile, RegFile(0, 1000, "x")}
      [] n = "notes.txt" -> {NoFile, RegFile(0, 1000, "x")}
      [] n \in DirNames -> {NoFile, SubDir}
      [] OTHER -> {NoFile}

\* what the dashboard holds already: nothing, or an older report
Published(n) ==
    IF n = "report_Sales_1.xml" THEN {NoFile, RegFile(0, 1001, "old")} ELSE {NoFile}

TransferInit ==
    /\ upload \in {d \in [Names -> UNION {TransferEntries(n) : n \in Names}] :
                      \A n \in Names : d[n] \in TransferEntries(n)}
    /\ dashboard \in {d \in [Names -> UNION {Published(n) : n \in Names}] :
                         \A n \in Names : d[n] \in Published(n)}
    /\ upload_mode = LOCKED_PERMISSIONS
    /\ dashboard_mode = LOCKED_PERMISSIONS
    /\ previous_files = NullFiles
    /\ change_log = <<>>
    /\ last_monitor = NoCall
    /\ LoopInit

\* two calls in a row
TransferCall ==
    /\ IF last_call.op = "none" THEN TRUE ELSE last_call.prev.op = "none"
    /\ \/ \* opendir fails
          /\ last_call' = [op |-> "transfer", opened |-> FALSE, upload |-> upload,
                           dashboard |-> dashboard, how |-> <<>>, order |-> <<>>,
                           attempted |-> 0, rc |-> FAILURE,
                           prev |-> Summary(last_call)]
          /\ change_log' = <<>>
          /\ UNCHANGED <<upload, dashboard>>
       \/ LET matched == Matched(upload)
          IN  \E how \in [matched -> MoveOutcomes] :
              \E stat_ok \in [matched -> BOOLEAN] :
              \E order \in Orders(matched) :
                 LET r == transfer_reports(upload, dashboard, how, stat_ok, order)
                 IN  /\ upload' = r.upload
                     /\ dashboard' = r.dashboard
                     /\ change_log' = r.log
                     /\ last_call' = [op |-> "transfer", opened |-> TRUE,
                                      upload |-> upload, dashboard |-> dashboard,
                                      how |-> how, order |-> order,
                                      attempted |-> Cardinality(matched),
                                      rc |-> r.rc, prev |-> Summary(last_call)]
    /\ UNCHANGED <<backups, modes, previous_files, last_monitor, clock, ticks, flags,
                   pc, locals, history, faults, process, input, ipc>>

SpecTransfer == TransferInit /\ [][TransferCall]_vars

(***************************************************************************)
(* transfer_reports one system call at a time: opendir, then for every     *)
(* matched entry, in the order of readdir, move_file (rename, or copy_file *)
(* chunk by chunk and unlink) and the record of the transfer.  input holds *)
(* the position of the call: the directory it started from (src), the     *)
(* entries readdir has yet to give (todo), the entry at hand (name), the   *)
(* calls move_file made for it (calls), the chunks written (copied), the   *)
(* result of copy_file (copy), the entries whose move_file returned        *)
(* FAILURE (failed), result and, at the end, the value returned (rc).      *)
(* A file of the dashboard directory that is being written holds           *)
(* "partial" until its last chunk is written.                              *)
(***************************************************************************)
move_rest == <<backups, modes, previous_files, last_monitor, clock, ticks, flags, pc,
               locals, history, faults, process, last_call, ipc>>

MoveInit ==
    /\ upload \in {d \in [Names -> UNION {TransferEntries(n) : n \in Names}] :
                      \A n \in Names : d[n] \in TransferEntries(n)}
    /\ dashboard \in {d \in [Names -> UNION {Published(n) : n \in Names}] :
                         \A n \in Names : d[n] \in Published(n)}
    /\ upload_mode = LOCKED_PERMISSIONS
    /\ dashboard_mode = LOCKED_PERMISSIONS
    /\ previous_files = NullFiles
    /\ change_log = <<>>
    /\ last_monitor = NoCall
    /\ LoopState
    /\ input \in {[op |-> "transfer", pc |-> "opendir", src |-> upload, todo |-> o,
                    name |-> "", calls |-> <<>>, copied |-> 0, copy |-> SUCCESS,
                    failed |-> {}, result |-> SUCCESS, rc |-> SUCCESS] :
                      o \in Orders(Matched(upload))}
    /\ fifo_data = <<>>
    /\ worker = NoWorker

Reached(label) == input.op = "transfer" /\ input.pc = label
Called(call, ok) == Append(input.calls, <<call, ok>>)

\* move_file returns FAILURE: result = FAILURE; continue
MoveFailed(calls) ==
    [input EXCEPT !.pc = "readdir", !.calls = calls, !.result = FAILURE,
                  !.failed = @ \cup {input.name}]

\* the mutant of AfterCopy: the source is unlinked whatever copy_file returned
AfterCopyAlwaysUnlink(copy) == "unlink"
\* if (copy_file(source, destination) == SUCCESS): unlink, else return FAILURE
AfterCopy(copy) == IF copy = SUCCESS THEN "unlink" ELSE "failed"

TransferOpendir ==
    /\ Reached("opendir")
    /\ \E ok \in BOOLEAN :
          input' = IF ok THEN [input EXCEPT !.pc = "readdir"]
                   ELSE [input EXCEPT !.pc = "done", !.rc = FAILURE]
    /\ UNCHANGED <<upload, dashboard, change_log, move_rest>>

TransferReaddir ==
    /\ Reached("readdir")
    /\ input' = IF input.todo = <<>>
                THEN [input EXCEPT !.pc = "done", !.rc = input.result]
                ELSE [input EXCEPT !.pc = "rename", !.name = Head(input.todo),
                                   !.todo = Tail(input.todo), !.calls = <<>>,
                                   !.copied = 0, !.copy = SUCCESS]
    /\ UNCHANGED <<upload, dashboard, change_log, move_rest>>

MoveRename ==
    /\ Reached("rename")
    /\ \/ /\ upload' = [upload EXCEPT ![input.name] = NoFile]
          /\ dashboard' = [dashboard EXCEPT ![input.name] = upload[input.name]]
          /\ input' = [input EXCEPT !.pc = "log", !.calls = Called("rename", TRUE)]
       \/ /\ input' = [input EXCEPT !.pc = "open_src", !.calls = Called("rename", FALSE)]
          /\ UNCHANGED <<upload, dashboard>>
    /\ UNCHANGED <<change_log, move_rest>>

CopyOpenSource ==
    /\ Reached("open_src")
    /\ \E ok \in BOOLEAN :
          input' = IF ok THEN [input EXCEPT !.pc = "open_dest"]
                   ELSE MoveFailed(Called("copy", FALSE))
    /\ UNCHANGED <<upload, dashboard, change_log, move_rest>>

\* open(destination, O_WRONLY | O_CREAT | O_TRUNC, 0644)
CopyOpenDest ==
    /\ Reached("open_dest")
    /\ \/ /\ dashboard' = [dashboard EXCEPT ![input.name] =
                               CopyOf(upload[input.name], dashboard[input.name],
                                      "partial")]
          /\ input' = [input EXCEPT !.pc = "copy"]
       \/ /\ input' = MoveFailed(Called("copy", FALSE))
          /\ UNCHANGED dashboard
    /\ UNCHANGED <<upload, change_log, move_rest>>

\* one turn of the while of copy_file: a chunk is read and written, or the
\* read or the write fails, or the read finds the end of the file
CopyChunk ==
    /\ Reached("copy")
    /\ \/ /\ input.copied < MaxChunks
          /\ dashboard' = [dashboard EXCEPT ![input.name] =
                               CopyOf(upload[input.name], dashboard[input.name],
                                      IF input.copied + 1 = MaxChunks
                                      THEN upload[input.name].data ELSE "partial")]
          /\ input' = [input EXCEPT !.copied = @ + 1]
       \/ /\ input' = [input EXCEPT !.pc = "close", !.copy = FAILURE]
          /\ UNCHANGED dashboard
       \/ /\ input.copied = MaxChunks
          /\ input' = [input EXCEPT !.pc = "close", !.copy = SUCCESS]
          /\ UNCHANGED dashboard
    /\ UNCHANGED <<upload, change_log, move_rest>>

\* close, close, return result; then the test of move_file
CopyClose ==
    /\ Reached("close")
    /\ input' = IF AfterCopy(input.copy) = "unlink"
                THEN [input EXCEPT !.pc = "unlink",
                                   !.calls = Called("copy", input.copy = SUCCESS)]
                ELSE MoveFailed(Called("copy", FALSE))
    /\ UNCHANGED <<upload, dashboard, change_log, move_rest>>

MoveUnlink ==
    /\ Reached("unlink")
    /\ \/ /\ upload' = [upload EXCEPT ![input.name] = NoFile]
          /\ input' = [input EXCEPT !.pc = "log", !.calls = Called("unlink", TRUE)]
       \/ /\ input' = MoveFailed(Called("unlink", FALSE))
          /\ UNCHANGED upload
    /\ UNCHANGED <<dashboard, change_log, move_rest>>

\* get_file_owner(dest_path, ...) and log_file_change
TransferRecord ==
    /\ Reached("log")
    /\ \E stat_ok \in BOOLEAN :
          LET o == get_file_owner(dashboard[input.name], stat_ok)
          IN  change_log' = IF o.rc = SUCCESS
                            THEN Append(change_log,
                                        Event(o.owner, input.name, "transfer"))
                            ELSE change_log
    /\ input' = [input EXCEPT !.pc = "readdir"]
    /\ UNCHANGED <<upload, dashboard, move_rest>>

MoveNext ==
    \/ TransferOpendir \/ TransferReaddir \/ MoveRename \/ CopyOpenSource
    \/ CopyOpenDest \/ CopyChunk \/ CopyClose \/ MoveUnlink \/ TransferRecord

SpecMove == MoveInit /\ [][MoveNext]_vars

(***************************************************************************)
(* extract_department_from_filename on its own, called once on a file name *)
(* made of a head, a body of at most MaxBody characters and a tail, or on  *)
(* one of three dated and undated names.                                   *)
(***************************************************************************)
Heads ==
    {REPORT_PREFIX, <<"r", "e", "p", "o", "r", "t">>, <<"R">> \o Tail(REPORT_PREFIX),
     <<"x">> \o REPORT_PREFIX, <<"i", "n", "v", "o", "i", "c", "e", "_">>, <<>>}
BodyChars == {"S", "a", "_"}
Bodies == UNION {[1..k -> BodyChars] : k \in 0..MaxBody}
Tails ==
    {<<>>, REPORT_EXTENSION, <<"_", "1">> \o REPORT_EXTENSION, <<".", "t", "x", "t">>,
     REPORT_EXTENSION \o <<"_", "o">>, REPORT_EXTENSION \o REPORT_EXTENSION}
Sales20240101 ==
    REPORT_PREFIX \o <<"S", "a", "l", "e", "s", "_", "2", "0", "2", "4", "-", "0", "1",
                       "-", "0", "1">> \o REPORT_EXTENSION
SalesUndated == REPORT_PREFIX \o <<"S", "a", "l", "e", "s">> \o REPORT_EXTENSION
Invoice2024 ==
    <<"i", "n", "v", "o", "i", "c", "e", "_", "2", "0", "2", "4">> \o REPORT_EXTENSION
FileNameInputs ==
    {h \o b \o t : h \in Heads, b \in Bodies, t \in Tails}
        \cup {Sales20240101, SalesUndated, Invoice2024}

ExtractInit ==
    /\ upload = EmptyDir
    /\ dashboard = EmptyDir
    /\ upload_mode = UPLOAD_PERMISSIONS
    /\ dashboard_mode = DASHBOARD_PERMISSIONS
    /\ previous_files = NullFiles
    /\ change_log = <<>>
    /\ last_monitor = NoCall
    /\ LoopState
    /\ input \in {[op |-> "extract", filename |-> f] : f \in FileNameInputs}
    /\ fifo_data = <<>>
    /\ worker = NoWorker

ExtractCall ==
    /\ input.op = "extract"
    /\ last_call.op = "none"
    /\ last_call' = [op |-> "extract", filename |-> input.filename,
                     result |-> extract_department_from_filename(input.filename)]
    /\ UNCHANGED <<dirs, modes, engine, clock, ticks, flags, pc, locals, history,
                   faults, process, input, ipc>>

SpecExtract == ExtractInit /\ [][ExtractCall]_vars

(***************************************************************************)
(* scan_directory on its own, called once on a directory that holds any    *)
(* of a report, an invoice, a text file, a hidden file and a               *)
(* subdirectory, with the department field of every ReportFile.  No code   *)
(* reads that field, which the inventories of the engine leave out.        *)
(***************************************************************************)
ScanNames == {"report_Sales_1.xml", "invoice.xml", "notes.txt", ".tmp.xml", "old.xml"}

\* what a field of the malloc'ed array holds when nothing was written to it
Indeterminate == {<<>>, <<"?">>}

\* the department field after the if of lines 326-332
Departments(n) ==
    IF HasExtension(n)
    THEN LET d == extract_department_from_filename(Chars(n))
         IN  IF d.found THEN {d.label} ELSE Indeterminate
    ELSE {<<>>}

ReportFile(snapshot, department) ==
    [filename |-> snapshot.filename, timestamp |-> snapshot.timestamp,
     owner |-> snapshot.owner, department |-> department]

ScanInit ==
    /\ upload \in {d \in [Names -> {NoFile, SubDir, RegFile(0, 1000, "x")}] :
                      \A n \in Names :
                         /\ n \notin ScanNames => d[n] = NoFile
                         /\ n \in DirNames => d[n] # RegFile(0, 1000, "x")
                         /\ n \notin DirNames => d[n] # SubDir}
    /\ dashboard = EmptyDir
    /\ upload_mode = UPLOAD_PERMISSIONS
    /\ dashboard_mode = DASHBOARD_PERMISSIONS
    /\ previous_files = NullFiles
    /\ change_log = <<>>
    /\ last_monitor = NoCall
    /\ LoopState
    /\ input = [op |-> "scan"]
    /\ fifo_data = <<>>
    /\ worker = NoWorker

ScanCall ==
    /\ input.op = "scan"
    /\ last_call.op = "none"
    /\ \E opened \in BOOLEAN, alloc_ok \in BOOLEAN, readable \in SUBSET Names :
          \E scan \in ScanOutcome(upload, opened, alloc_ok, readable) :
             \E department \in [1..Len(scan.files) -> Indeterminate \cup {DEPT_SALES}] :
                /\ \A i \in 1..Len(scan.files) :
                      department[i] \in Departments(scan.files[i].filename)
                /\ last_call' = [op |-> "scan", rc |-> scan.rc,
                                 files |-> [i \in 1..Len(scan.files) |->
                                              ReportFile(scan.files[i], department[i])],
                                 opened |-> opened, alloc_ok |-> alloc_ok,
                                 readable |-> readable]
    /\ UNCHANGED <<dirs, modes, engine, clock, ticks, flags, pc, locals, history,
                   faults, process, input, ipc>>

SpecScan == ScanInit /\ [][ScanCall]_vars

(***************************************************************************)
(* daemon_main_loop, one action per statement between two points at which  *)
(* a signal handler can run.                                               *)
(***************************************************************************)
Call(run, op, rc) == [run |-> run, op |-> op, rc |-> rc]

\* time(NULL): the last value read, or a later one
TimeNow == {clock} \cup (IF ticks < MaxTicks THEN {clock + d : d \in Elapsed} ELSE {})
ReadClock(t) ==
    /\ t \in TimeNow
    /\ clock' = t
    /\ ticks' = IF t > clock THEN ticks + 1 ELSE ticks

\* n system calls fail in this step
Spend(n) == signals + faults + n <= MaxEvents /\ faults' = faults + n
Failed(ok) == IF ok THEN 0 ELSE 1

\* the mutant of AfterTransfer: a failed transfer ends the run at unlock
AfterTransferAbort(rc) == IF rc = SUCCESS THEN "check_missing" ELSE "unlock"
\* the statement reached after transfer_reports() has returned rc
AfterTransfer(rc) == "check_missing"

\* the mutant of AfterUnlock: the flag is left set
AfterUnlockKeepFlag(flag) == flag
\* force_transfer = 0 after the run
AfterUnlock(flag) == 0

\* the mutant of AfterMonitor: the backup is run whatever the flag
AfterMonitorAlways(flag) == "manual_lock"
\* if (force_backup) after monitor_directory_changes()
AfterMonitor(flag) == IF flag = 1 THEN "manual_lock" ELSE "sleep"

\* the mutant of AfterWhile: the loop also ends after a call that failed
AfterWhileFailureStops(flag) ==
    IF flag = 0 /\ \A i \in 1..Len(trace) : trace[i].rc # FAILURE THEN "time"
    ELSE "exited"
\* the mutant of AfterWhile: the loop goes on whatever the flag
AfterWhileForever(flag) == "time"
\* while (!daemon_exit): into the body, or past the loop
AfterWhile(flag) == IF flag = 0 THEN "time" ELSE "exited"

\* while (!daemon_exit)
WhileTest ==
    /\ pc = "while"
    /\ pc' = AfterWhile(daemon_exit)
    /\ UNCHANGED <<apart, dirs, modes, engine, clock, ticks, flags, locals, history, faults>>

\* now = time(NULL); tm_now = localtime(&now)
GetTime ==
    /\ pc = "time"
    /\ \E t \in TimeNow : ReadClock(t) /\ now' = t
    /\ pc' = "check_transfer"
    /\ trace' = <<>>
    /\ obs' = NoObs
    /\ UNCHANGED <<apart, dirs, modes, engine, flags, last_check, faults, counters>>

\* if ((hour and minute match) || force_transfer)
CheckTransfer ==
    /\ pc = "check_transfer"
    /\ obs' = [obs EXCEPT !.ft = force_transfer]
    /\ IF TransferDue(now, force_transfer)
       THEN /\ pc' = "lock"
            /\ forced' = IF tm_hour(now) = TRANSFER_HOUR /\ tm_min(now) = TRANSFER_MINUTE
                         THEN forced ELSE forced + 1
       ELSE /\ pc' = "check_monitor"
            /\ forced' = forced
    /\ UNCHANGED <<apart, dirs, modes, engine, clock, ticks, flags, locals, trace, faults,
                   signals, requests>>

\* lock_directories(), in either run
LockStep(at, run, next) ==
    /\ pc = at
    /\ \E ok1, ok2 \in BOOLEAN :
          LET r == lock_directories(upload_mode, dashboard_mode, ok1, ok2)
          IN  /\ Spend(Failed(ok1) + Failed(ok2))
              /\ upload_mode' = r.upload_mode
              /\ dashboard_mode' = r.dashboard_mode
              /\ trace' = Append(trace, Call(run, "lock", r.rc))
              /\ obs' = [obs EXCEPT !.perm = Append(@, <<ok1, ok2>>)]
    /\ pc' = next
    /\ UNCHANGED <<apart, dirs, engine, clock, ticks, flags, locals, counters>>

\* unlock_directories(), in either run
UnlockStep(at, run, next) ==
    /\ pc = at
    /\ \E ok1, ok2 \in BOOLEAN :
          LET r == unlock_directories(upload_mode, dashboard_mode, ok1, ok2)
          IN  /\ Spend(Failed(ok1) + Failed(ok2))
              /\ upload_mode' = r.upload_mode
              /\ dashboard_mode' = r.dashboard_mode
              /\ trace' = Append(trace, Call(run, "unlock", r.rc))
              /\ obs' = [obs EXCEPT !.perm = Append(@, <<ok1, ok2>>)]
    /\ pc' = next
    /\ UNCHANGED <<apart, dirs, engine, clock, ticks, flags, locals, counters>>

\* backup_dashboard(), in either run
BackupStep(at, run, next) ==
    /\ pc = at
    /\ \E t \in TimeNow, made_dir, opened \in BOOLEAN :
       \E copied \in SUBSET BackupFiles(dashboard) :
       \E partial \in SUBSET (BackupFiles(dashboard) \ copied) :
          LET r == backup_dashboard(dashboard, backups, t, made_dir, opened, copied,
                                    partial)
          IN  /\ Spend(BackupFaults(dashboard, backups, t, made_dir, opened, copied))
              /\ ReadClock(t)
              /\ backups' = r.backups
              /\ trace' = Append(trace, Call(run, "backup", r.rc))
    /\ pc' = next
    /\ UNCHANGED <<apart, upload, dashboard, modes, engine, flags, locals, obs,
                   counters>>

PipelineLock == LockStep("lock", "transfer", "transfer")

\* transfer_reports()
PipelineTransfer ==
    /\ pc = "transfer"
    /\ \/ \* opendir fails
          /\ Spend(1)
          /\ trace' = Append(trace, Call("transfer", "transfer", FAILURE))
          /\ pc' = AfterTransfer(FAILURE)
          /\ change_log' = <<>>
          /\ UNCHANGED <<apart, upload, dashboard>>
       \/ \E how \in [Matched(upload) -> MoveOutcomes] :
          \E stat_ok \in [Matched(upload) -> BOOLEAN] :
          \E order \in Orders(Matched(upload)) :
             LET r == transfer_reports(upload, dashboard, how, stat_ok, order)
             IN  /\ Spend(TransferFaults(upload, how, stat_ok))
                 /\ upload' = r.upload
                 /\ dashboard' = r.dashboard
                 /\ change_log' = r.log
                 /\ trace' = Append(trace, Call("transfer", "transfer", r.rc))
                 /\ pc' = AfterTransfer(r.rc)
    /\ UNCHANGED <<apart, backups, modes, previous_files, last_monitor, clock, ticks, flags,
                   locals, obs, counters>>

\* check_missing_reports(); its result is not used
PipelineCheckMissing ==
    /\ pc = "check_missing"
    /\ \E opened \in BOOLEAN :
          /\ Spend(Failed(opened))
          /\ trace' = Append(trace, Call("transfer", "check_missing",
                                         check_missing_reports(dashboard, opened)))
    /\ pc' = "backup"
    /\ UNCHANGED <<apart, dirs, modes, engine, clock, ticks, flags, locals, obs,
                   counters>>

PipelineBackup == BackupStep("backup", "transfer", "unlock")

PipelineUnlock == UnlockStep("unlock", "transfer", "reset_transfer")

\* force_transfer = 0
ResetForceTransfer ==
    /\ pc = "reset_transfer"
    /\ force_transfer' = AfterUnlock(force_transfer)
    /\ pc' = "check_monitor"
    /\ UNCHANGED <<apart, dirs, modes, engine, clock, ticks, daemon_exit, force_backup,
                   locals, history, faults>>

\* if (now - last_check >= 5 || force_backup)
CheckMonitor ==
    /\ pc = "check_monitor"
    /\ obs' = [obs EXCEPT !.fb1 = force_backup, !.last = last_check]
    /\ pc' = IF MonitorDue(now, last_check, force_backup) THEN "monitor" ELSE "sleep"
    /\ UNCHANGED <<apart, dirs, modes, engine, clock, ticks, flags, locals, trace, faults,
                   counters>>

\* monitor_directory_changes(); last_check = now
MonitorChanges ==
    /\ pc = "monitor"
    /\ \E scan \in scan_directory(upload) :
          LET r == Monitor(previous_files, scan)
          IN  /\ Spend(scan.failed)
              /\ previous_files' = r.previous
              /\ change_log' = r.log
              /\ last_monitor' = [called |-> TRUE, rc |-> r.rc, scan_rc |-> scan.rc,
                                  scanned |-> scan.files, before |-> previous_files]
              /\ trace' = Append(trace, Call("monitor", "monitor", r.rc))
    /\ last_check' = now
    /\ pc' = "check_backup"
    /\ UNCHANGED <<apart, dirs, modes, clock, ticks, flags, now, obs, counters>>

\* if (force_backup)
CheckBackup ==
    /\ pc = "check_backup"
    /\ obs' = [obs EXCEPT !.fb2 = force_backup]
    /\ pc' = AfterMonitor(force_backup)
    /\ UNCHANGED <<apart, dirs, modes, engine, clock, ticks, flags, locals, trace, faults,
                   counters>>

ManualLock == LockStep("manual_lock", "manual", "manual_backup")

ManualBackup == BackupStep("manual_backup", "manual", "manual_unlock")

ManualUnlock == UnlockStep("manual_unlock", "manual", "reset_backup")

\* force_backup = 0
ResetForceBackup ==
    /\ pc = "reset_backup"
    /\ force_backup' = 0
    /\ trace' = Append(trace, Call("manual", "reset", SUCCESS))
    /\ pc' = "sleep"
    /\ UNCHANGED <<apart, dirs, modes, engine, clock, ticks, daemon_exit, force_transfer,
                   locals, obs, faults, counters>>

\* sleep(1); the time that has passed shows at the next read of the clock
Sleep ==
    /\ pc = "sleep"
    /\ pc' = "while"
    /\ UNCHANGED <<apart, dirs, modes, engine, clock, ticks, flags, locals, history, faults>>

(***************************************************************************)
(* signal_handler: a signal is delivered at any point of the loop.         *)
(***************************************************************************)
\* the three flags as one value
Flags == [daemon_exit |-> daemon_exit, force_backup |-> force_backup,
          force_transfer |-> force_transfer]

\* the mutant of signal_handler: SIGUSR2 asks for the forced backup too
signal_handler_both(sig, f) ==
    CASE sig \in {"SIGTERM", "SIGINT"} -> [f EXCEPT !.daemon_exit = 1]
      [] sig = "SIGUSR1" -> [f EXCEPT !.force_backup = 1]
      [] sig = "SIGUSR2" -> [f EXCEPT !.force_transfer = 1, !.force_backup = 1]
      [] OTHER -> f

\* signal_handler(sig): the flags after it has run on flags f
signal_handler(sig, f) ==
    CASE sig \in {"SIGTERM", "SIGINT"} -> [f EXCEPT !.daemon_exit = 1]
      [] sig = "SIGUSR1" -> [f EXCEPT !.force_backup = 1]
      [] sig = "SIGUSR2" -> [f EXCEPT !.force_transfer = 1]
      [] OTHER -> f

\* the handlers are installed and the process has not left the loop
Handling ==
    pc \notin {"check_singleton", "fork", "setsid", "chdir", "create_pid_file",
               "failed", "exited", "stopped"}

\* a signal is delivered while the process runs
Deliver(sig) ==
    /\ Handling
    /\ signals + faults < MaxEvents
    /\ signals' = signals + 1
    /\ LET f == signal_handler(sig, Flags)
       IN  /\ daemon_exit' = f.daemon_exit
           /\ force_backup' = f.force_backup
           /\ force_transfer' = f.force_transfer
    /\ UNCHANGED <<apart, dirs, modes, engine, clock, ticks, pc, locals, trace, obs,
                   faults, forced>>

\* SIGTERM, SIGINT
SignalTerm ==
    /\ \E sig \in {"SIGTERM", "SIGINT"} : Deliver(sig)
    /\ UNCHANGED requests

\* SIGUSR1
SignalUsr1 ==
    /\ Deliver("SIGUSR1")
    /\ UNCHANGED requests

\* SIGUSR2
SignalUsr2 ==
    /\ Deliver("SIGUSR2")
    /\ requests' = requests + 1

\* SIGHUP: the handler changes nothing
SignalHup ==
    /\ Handling
    /\ signal_handler("SIGHUP", Flags) = Flags
    /\ UNCHANGED vars

(***************************************************************************)
(* The daemon and the signals it receives.                                 *)
(***************************************************************************)
\* what the upload directory holds when the daemon starts
\* the names uploaders use while the daemon runs
Uploaded ==
    [n \in Names |-> IF n = "report_Sales_1.xml" THEN RegFile(0, 1000, "x")
                     ELSE NoFile]

Init ==
    /\ upload = Uploaded
    /\ dashboard = EmptyDir
    /\ upload_mode = UPLOAD_PERMISSIONS
    /\ dashboard_mode = DASHBOARD_PERMISSIONS
    /\ previous_files = NullFiles
    /\ change_log = <<>>
    /\ last_monitor = NoCall
    /\ LoopInit

Next ==
    \/ WhileTest \/ GetTime \/ CheckTransfer
    \/ PipelineLock \/ PipelineTransfer \/ PipelineCheckMissing
    \/ PipelineBackup \/ PipelineUnlock \/ ResetForceTransfer
    \/ CheckMonitor \/ MonitorChanges \/ CheckBackup
    \/ ManualLock \/ ManualBackup \/ ManualUnlock \/ ResetForceBackup
    \/ Sleep
    \/ SignalTerm \/ SignalUsr1 \/ SignalUsr2 \/ SignalHup

Spec == Init /\ [][Next]_vars

\* the statements of daemon_main_loop: the process is scheduled again and again
Loop ==
    \/ WhileTest \/ GetTime \/ CheckTransfer
    \/ PipelineLock \/ PipelineTransfer \/ PipelineCheckMissing
    \/ PipelineBackup \/ PipelineUnlock \/ ResetForceTransfer
    \/ CheckMonitor \/ MonitorChanges \/ CheckBackup
    \/ ManualLock \/ ManualBackup \/ ManualUnlock \/ ResetForceBackup
    \/ Sleep

SpecLive == Spec /\ WF_vars(Loop)

(***************************************************************************)
(* The pipeline from check_missing_reports on: lock_directories and        *)
(* transfer_reports have returned, and the dashboard directory holds the   *)
(* reports of any of the departments, an invoice, or nothing.              *)
(***************************************************************************)
DepartmentFiles ==
    {"report_Sales_1.xml", "report_Warehouse.xml", "report_manufacturing_2.xml",
     "report_Distribution_1.xml", "invoice.xml"}

MissingInit ==
    /\ upload = EmptyDir
    /\ dashboard \in {d \in [Names -> {NoFile, RegFile(0, 1000, "x")}] :
                         \A n \in Names \ DepartmentFiles : d[n] = NoFile}
    /\ upload_mode = LOCKED_PERMISSIONS
    /\ dashboard_mode = LOCKED_PERMISSIONS
    /\ previous_files = NullFiles
    /\ change_log = <<>>
    /\ last_monitor = NoCall
    /\ backups = <<>>
    /\ clock \in {t + 1 : t \in BootTimes}
    /\ now = clock
    /\ ticks = 0
    /\ daemon_exit = 0 /\ force_backup = 0 /\ force_transfer = 0
    /\ pc = "check_missing"
    /\ last_check = 0
    /\ trace = <<Call("transfer", "lock", SUCCESS), Call("transfer", "transfer", SUCCESS)>>
    /\ obs = [NoObs EXCEPT !.ft = 0, !.perm = <<(<<TRUE, TRUE>>)>>]
    /\ faults = 0 /\ signals = 0 /\ requests = 0 /\ forced = 0
    /\ Started
    /\ last_call = NoLastCall
    /\ Quiet

MissingNext ==
    PipelineCheckMissing \/ PipelineBackup \/ PipelineUnlock \/ ResetForceTransfer

SpecMissing == MissingInit /\ [][MissingNext]_vars

(***************************************************************************)
(* The IPC channel (ipc.c).  The FIFO holds units; an IPCMessage is        *)
(* RecordUnits of them.  A write of a whole message puts all its units or, *)
(* where the pipe does not take the message in one piece, the first ones   *)
(* only; a read takes up to RecordUnits units from the front.              *)
(***************************************************************************)
DaemonPid == 1
\* the pid fork gives the n-th child
ChildPid(n) == DaemonPid + n

IPCMessage(type, pid, status) ==
    [type |-> type, sender_pid |-> pid, status |-> status,
     message |-> IF status = SUCCESS THEN "Operation completed successfully"
                 ELSE "Operation failed"]
\* the units of a message, in order
Record(msg) == [i \in 1..RecordUnits |-> [msg |-> msg, part |-> i]]
\* the message made of RecordUnits units: itself when they are the units
\* of one message in order, unreadable otherwise
Framed(units) ==
    IF \E m \in {units[i].msg : i \in 1..Len(units)} : units = Record(m)
    THEN units[1].msg ELSE CorruptMessage

WriteOutcomes == {"full", "short", "failed"}

\* a completion message that always says SUCCESS
CompletionMessageAlwaysOk(msg_type, pid, result) == IPCMessage(msg_type, pid, SUCCESS)
\* the message create_reporting_process prepares in the child
CompletionMessage(msg_type, pid, result) == IPCMessage(msg_type, pid, result)

\* send_ipc_message in process pid: fifo_fd open or not, what write does
send_ipc_message(open, data, msg, pid, outcome) ==
    IF ~open THEN [rc |-> FAILURE, data |-> data, wrote |-> "nothing", sent |-> NoMessage]
    ELSE LET stamped == [msg EXCEPT !.sender_pid = pid]
             room == PipeUnits - Len(data)
         IN  IF outcome = "full" /\ room >= RecordUnits
             THEN [rc |-> SUCCESS, data |-> data \o Record(stamped), wrote |-> "full",
                   sent |-> stamped]
             ELSE IF outcome = "short" /\ room >= 1
                  THEN [rc |-> FAILURE,
                        data |-> data \o SubSeq(Record(stamped), 1, 1),
                        wrote |-> "short", sent |-> stamped]
                  ELSE [rc |-> FAILURE, data |-> data, wrote |-> "nothing",
                        sent |-> NoMessage]

\* a receive that reports what it read of a message as a message
ReceiveAnyBytes(open, data, read_ok) ==
    IF ~open THEN [rc |-> FAILURE, outcome |-> "closed", msg |-> NoMessage, data |-> data]
    ELSE IF ~read_ok
         THEN [rc |-> FAILURE, outcome |-> "error", msg |-> NoMessage, data |-> data]
         ELSE IF data = <<>>
              THEN [rc |-> FAILURE, outcome |-> "empty", msg |-> NoMessage, data |-> data]
              ELSE LET n == IF Len(data) < RecordUnits THEN Len(data) ELSE RecordUnits
                       got == SubSeq(data, 1, n)
                       rest == SubSeq(data, n + 1, Len(data))
                   IN  [rc |-> SUCCESS,
                        outcome |-> IF n # RecordUnits THEN "partial" ELSE "message",
                        msg |-> Framed(got), data |-> rest]

\* receive_ipc_message: fifo_fd open or not, whether read fails with an
\* error other than EAGAIN (EINTR, EIO)
receive_ipc_message(open, data, read_ok) ==
    IF ~open THEN [rc |-> FAILURE, outcome |-> "closed", msg |-> NoMessage, data |-> data]
    ELSE IF ~read_ok
         THEN [rc |-> FAILURE, outcome |-> "error", msg |-> NoMessage, data |-> data]
         ELSE IF data = <<>>
              THEN [rc |-> FAILURE, outcome |-> "empty", msg |-> NoMessage, data |-> data]
              ELSE LET n == IF Len(data) < RecordUnits THEN Len(data) ELSE RecordUnits
                       got == SubSeq(data, 1, n)
                       rest == SubSeq(data, n + 1, Len(data))
                   IN  IF n # RecordUnits
                       THEN [rc |-> FAILURE, outcome |-> "partial", msg |-> NoMessage,
                             data |-> rest]
                       ELSE [rc |-> SUCCESS, outcome |-> "message",
                             msg |-> Framed(got), data |-> rest]

IpcInit ==
    /\ upload = EmptyDir
    /\ dashboard = EmptyDir
    /\ upload_mode = UPLOAD_PERMISSIONS
    /\ dashboard_mode = DASHBOARD_PERMISSIONS
    /\ previous_files = NullFiles
    /\ change_log = <<>>
    /\ last_monitor = NoCall
    /\ backups = <<>>
    /\ clock \in BootTimes
    /\ ticks = 0
    /\ daemon_exit = 0 /\ force_backup = 0 /\ force_transfer = 0
    /\ pc = "while"
    /\ now = 0 /\ last_check = 0
    /\ trace = <<>>
    /\ obs = NoObs
    /\ faults = 0 /\ signals = 0 /\ requests = 0 /\ forced = 0
    /\ pid_file = TRUE /\ fifo = TRUE
    /\ fifo_fd \in BOOLEAN
    /\ exit_status = "none" /\ parent_status = "EXIT_SUCCESS"
    /\ startup_error = "none"
    /\ cleanups = 0
    /\ last_call = NoLastCall
    /\ Quiet

\* create_reporting_process up to the return of fork
Fork_worker ==
    /\ worker.pc \in {"none", "exited"}
    /\ worker.created < MaxWorkers
    /\ \E msg_type \in {MSG_BACKUP_COMPLETE, MSG_TRANSFER_COMPLETE}, ok \in BOOLEAN :
          worker' = IF ok
                    THEN [NoWorker EXCEPT !.pc = "run",
                                          !.pid = ChildPid(worker.created + 1),
                                          !.msg_type = msg_type,
                                          !.ret = ChildPid(worker.created + 1),
                                          !.created = worker.created + 1]
                    ELSE [NoWorker EXCEPT !.ret = -1, !.created = worker.created + 1]
    /\ UNCHANGED <<dirs, modes, engine, clock, ticks, flags, pc, locals, history,
                   faults, process, last_call, input, fifo_data>>

\* result = function()
WorkerRun ==
    /\ worker.pc = "run"
    /\ \E result \in {SUCCESS, FAILURE} :
          worker' = [worker EXCEPT !.pc = "send", !.result = result, !.runs = @ + 1]
    /\ UNCHANGED <<dirs, modes, engine, clock, ticks, flags, pc, locals, history,
                   faults, process, last_call, input, fifo_data>>

\* send_ipc_message(&msg), on the descriptor the child inherited
WorkerSend ==
    /\ worker.pc = "send"
    /\ \E outcome \in WriteOutcomes :
          LET msg == CompletionMessage(worker.msg_type, worker.pid, worker.result)
              r == send_ipc_message(fifo_fd, fifo_data, msg, worker.pid, outcome)
          IN  /\ fifo_data' = r.data
              /\ worker' = [worker EXCEPT !.pc = "exit", !.sends = @ + 1,
                                          !.wrote = r.wrote, !.sent = r.sent]
    /\ UNCHANGED <<dirs, modes, engine, clock, ticks, flags, pc, locals, history,
                   faults, process, last_call, input>>

\* exit(result == SUCCESS ? EXIT_SUCCESS : EXIT_FAILURE)
WorkerExit ==
    /\ worker.pc = "exit"
    /\ worker' = [worker EXCEPT !.pc = "exited",
                                !.status = IF worker.result = SUCCESS
                                           THEN "EXIT_SUCCESS" ELSE "EXIT_FAILURE"]
    /\ UNCHANGED <<dirs, modes, engine, clock, ticks, flags, pc, locals, history,
                   faults, process, last_call, input, fifo_data>>

\* what is kept of the receive before the last one
ReceiveSummary(c) ==
    IF c.op = "none" THEN c ELSE [op |-> c.op, outcome |-> c.outcome, rc |-> c.rc]

\* the process that called create_reporting_process calls receive_ipc_message
Receive ==
    /\ \E read_ok \in BOOLEAN :
          LET r == receive_ipc_message(fifo_fd, fifo_data, read_ok)
          IN  /\ fifo_data' = r.data
              /\ last_call' = [op |-> "receive", outcome |-> r.outcome, rc |-> r.rc,
                               msg |-> r.msg, found |-> fifo_data,
                               left |-> r.data,
                               prev |-> ReceiveSummary(last_call)]
    /\ UNCHANGED <<dirs, modes, engine, clock, ticks, flags, pc, locals, history,
                   faults, process, input, worker>>

IpcNext == Fork_worker \/ WorkerRun \/ WorkerSend \/ WorkerExit \/ Receive

SpecIpc == IpcInit /\ [][IpcNext]_vars

(***************************************************************************)
(* backup_dashboard on its own: two calls in a row on a dashboard          *)
(* directory drawn from the contents of TransferEntries, with every        *)
(* outcome of mkdir, opendir and of each copy_file.  The second call can   *)
(* fall in the second of the first.                                        *)
(***************************************************************************)
BackupInit ==
    /\ upload = EmptyDir
    /\ dashboard \in {d \in [Names -> UNION {TransferEntries(n) : n \in Names}] :
                         \A n \in Names : d[n] \in TransferEntries(n)}
    /\ upload_mode = LOCKED_PERMISSIONS
    /\ dashboard_mode = LOCKED_PERMISSIONS
    /\ previous_files = NullFiles
    /\ change_log = <<>>
    /\ last_monitor = NoCall
    /\ LoopInit

BackupCall ==
    /\ IF last_call.op = "none" THEN TRUE ELSE last_call.prev.op = "none"
    /\ \E t \in TimeNow, made_dir, opened \in BOOLEAN :
       \E copied \in SUBSET BackupFiles(dashboard) :
       \E partial \in SUBSET (BackupFiles(dashboard) \ copied) :
          LET r == backup_dashboard(dashboard, backups, t, made_dir, opened, copied,
                                    partial)
              made == t \notin DOMAIN backups /\ made_dir
          IN  /\ ReadClock(t)
              /\ backups' = r.backups
              /\ last_call' = [op |-> "backup", made |-> made,
                               opened |-> made /\ opened,
                               dashboard |-> dashboard, backups |-> backups,
                               t |-> t, copied |-> copied,
                               attempted |-> IF made /\ opened
                                             THEN Cardinality(BackupFiles(dashboard))
                                             ELSE 0,
                               rc |-> r.rc, prev |-> Summary(last_call)]
    /\ UNCHANGED <<upload, dashboard, modes, engine, flags, pc, locals, history,
                   faults, process, input, ipc>>

SpecBackup == BackupInit /\ [][BackupCall]_vars

(***************************************************************************)
(* main(): daemon_init, daemon_main_loop, daemon_cleanup.  After the fork  *)
(* the model follows the child; parent_status is what the process that     *)
(* was started returned.                                                   *)
(***************************************************************************)
\* check_singleton: the PID file can be read and kill(pid, 0) finds a process
check_singleton(exists, alive) == exists /\ alive

\* the mutant of AfterStartup: the failure of a step is not acted upon
AfterStartupIgnore(ok, next) == next
\* "return FAILURE" in daemon_init and "return EXIT_FAILURE" in main
AfterStartup(ok, next) == IF ok THEN next ELSE "failed"

\* one step of daemon_init that can fail
StartupStep(at, ok, error, next) ==
    /\ pc = at
    /\ pc' = AfterStartup(ok, next)
    /\ startup_error' = IF ok THEN startup_error ELSE error
    /\ exit_status' = IF pc' = "failed" THEN "EXIT_FAILURE" ELSE exit_status
    /\ UNCHANGED <<dirs, modes, engine, clock, ticks, flags, locals, history,
                   cleanups, last_call, input, ipc>>

\* if (check_singleton()) return FAILURE
CheckSingleton ==
    /\ \E alive \in BOOLEAN :
          StartupStep("check_singleton", ~check_singleton(pid_file, alive),
                      "singleton", "fork")
    /\ UNCHANGED <<pid_file, fifo, fifo_fd, parent_status, faults>>

\* fork(): the parent exits with EXIT_SUCCESS, the child goes on
Fork ==
    /\ \E ok \in BOOLEAN :
          /\ Spend(Failed(ok))
          /\ StartupStep("fork", ok, "fork", "setsid")
          /\ parent_status' = IF ok THEN "EXIT_SUCCESS" ELSE parent_status
    /\ UNCHANGED <<pid_file, fifo, fifo_fd>>

\* setsid()
Setsid ==
    /\ \E ok \in BOOLEAN :
          Spend(Failed(ok)) /\ StartupStep("setsid", ok, "setsid", "chdir")
    /\ UNCHANGED <<pid_file, fifo, fifo_fd, parent_status>>

\* chdir("/")
Chdir ==
    /\ \E ok \in BOOLEAN :
          Spend(Failed(ok)) /\ StartupStep("chdir", ok, "chdir", "create_pid_file")
    /\ UNCHANGED <<pid_file, fifo, fifo_fd, parent_status>>

\* create_pid_file(); setup_signal_handlers() follows when it succeeds
CreatePidFile ==
    /\ \E ok \in BOOLEAN :
          /\ Spend(Failed(ok))
          /\ StartupStep("create_pid_file", ok, "pid_file", "setup_ipc")
          /\ pid_file' = (pid_file \/ ok)
    /\ UNCHANGED <<fifo, fifo_fd, parent_status>>

\* setup_ipc: mkfifo when the FIFO does not exist, then open
setup_ipc(exists, made, opened) ==
    IF ~exists /\ ~made THEN [fifo |-> FALSE, fifo_fd |-> FALSE, rc |-> FAILURE]
    ELSE IF ~opened THEN [fifo |-> TRUE, fifo_fd |-> FALSE, rc |-> FAILURE]
    ELSE [fifo |-> TRUE, fifo_fd |-> TRUE, rc |-> SUCCESS]

SetupIpc ==
    /\ \E made, opened \in BOOLEAN :
          LET r == setup_ipc(fifo, made, opened)
          IN  /\ Spend(Failed(r.rc = SUCCESS))
              /\ StartupStep("setup_ipc", r.rc = SUCCESS, "ipc", "init_permissions")
              /\ fifo' = r.fifo
              /\ fifo_fd' = r.fifo_fd
    /\ UNCHANGED <<pid_file, parent_status>>

\* the two set_directory_permissions calls of daemon_init; their results
\* are not looked at
InitPermissions ==
    /\ pc = "init_permissions"
    /\ \E ok1, ok2 \in BOOLEAN :
          LET r == unlock_directories(upload_mode, dashboard_mode, ok1, ok2)
          IN  /\ Spend(Failed(ok1) + Failed(ok2))
              /\ upload_mode' = r.upload_mode
              /\ dashboard_mode' = r.dashboard_mode
    /\ pc' = "while"
    /\ UNCHANGED <<apart, dirs, engine, clock, ticks, flags, locals, history>>

\* daemon_cleanup() and "return EXIT_SUCCESS": unlink(PID_FILE), then
\* cleanup_ipc closes the FIFO and unlinks it; a call that fails changes
\* nothing
daemon_cleanup ==
    /\ pc = "exited"
    /\ \E unlinked, removed \in BOOLEAN :
          /\ Spend(Failed(unlinked \/ ~pid_file) + Failed(removed \/ ~fifo))
          /\ pid_file' = (pid_file /\ ~unlinked)
          /\ fifo' = (fifo /\ ~removed)
    /\ fifo_fd' = FALSE
    /\ cleanups' = cleanups + 1
    /\ exit_status' = "EXIT_SUCCESS"
    /\ pc' = "stopped"
    /\ UNCHANGED <<dirs, modes, engine, clock, ticks, flags, locals, history,
                   parent_status, startup_error, last_call, input, ipc>>

\* the process is started: the directories are as an earlier run left them,
\* a PID file and a FIFO may be there
MainInit ==
    /\ upload = Uploaded
    /\ dashboard = EmptyDir
    /\ upload_mode \in {UPLOAD_PERMISSIONS, LOCKED_PERMISSIONS}
    /\ dashboard_mode \in {DASHBOARD_PERMISSIONS, LOCKED_PERMISSIONS}
    /\ previous_files = NullFiles
    /\ change_log = <<>>
    /\ last_monitor = NoCall
    /\ backups = <<>>
    /\ clock \in BootTimes
    /\ ticks = 0
    /\ daemon_exit = 0 /\ force_backup = 0 /\ force_transfer = 0
    /\ pc = "check_singleton"
    /\ now = 0 /\ last_check = 0
    /\ trace = <<>>
    /\ obs = NoObs
    /\ faults = 0 /\ signals = 0 /\ requests = 0 /\ forced = 0
    /\ pid_file \in BOOLEAN /\ fifo \in BOOLEAN /\ fifo_fd = FALSE
    /\ exit_status = "none" /\ parent_status = "none"
    /\ startup_error = "none"
    /\ cleanups = 0
    /\ last_call = NoLastCall
    /\ Quiet

daemon_init ==
    \/ CheckSingleton \/ Fork \/ Setsid \/ Chdir \/ CreatePidFile \/ SetupIpc
    \/ InitPermissions

MainNext == daemon_init \/ Next \/ daemon_cleanup

SpecMain == MainInit /\ [][MainNext]_vars

SpecMainLive == SpecMain /\ WF_vars(daemon_init \/ Loop \/ daemon_cleanup)

(***************************************************************************)
(* Properties of the change detection engine (checked under SpecDetect).   *)
(***************************************************************************)
FileNames(files) == {files[i].filename : i \in 1..Len(files)}
Logged(action) == {change_log[i].filename : i \in {k \in 1..Len(change_log) :
                                                    change_log[k].action = action}}
TimesLogged(name, action) ==
    Cardinality({i \in 1..Len(change_log) :
                   change_log[i].filename = name /\ change_log[i].action = action})
StampOf(files, name) == files[IndexOf(files, name)].timestamp
\* a successful call that compared its scan with a stored inventory
Compared ==
    last_monitor.called /\ last_monitor.rc = SUCCESS /\ ~last_monitor.before.null
\* the two inventories hold the same files and differ in the time of name only
OnlyNewer(prev, cur, name) ==
    /\ FileNames(prev) = FileNames(cur)
    /\ name \in FileNames(cur)
    /\ StampOf(cur, name) > StampOf(prev, name)
    /\ \A other \in FileNames(cur) \ {name} :
          cur[IndexOf(cur, other)] = prev[IndexOf(prev, other)]

\* C2: the first successful detect (no inventory stored) logs no change
\* event, whatever the directory holds, and stores its scan as the baseline.
C2_PrimingRun ==
    (last_monitor.called /\ last_monitor.rc = SUCCESS /\ last_monitor.before.null)
        => /\ change_log = <<>>
           /\ previous_files = [null |-> FALSE, items |-> last_monitor.scanned]
C2_Witness ==
    /\ last_monitor.called /\ last_monitor.rc = SUCCESS /\ last_monitor.before.null
    /\ Len(last_monitor.scanned) = 2
    /\ change_log = <<>>

\* C3: a file is logged as modified exactly once when its time in the
\* current inventory is strictly newer than in the previous one, and never
\* when it is equal or older; two inventories that differ only in one newer
\* time give exactly that one record.
C3_ModifiedIffNewer ==
    Compared =>
        LET prev == last_monitor.before.items
            cur == last_monitor.scanned
        IN  /\ \A n \in Names :
                  TimesLogged(n, "modify") =
                      IF /\ n \in FileNames(prev) \cap FileNames(cur)
                         /\ StampOf(cur, n) > StampOf(prev, n)
                      THEN 1 ELSE 0
            /\ \A n \in Names :
                  OnlyNewer(prev, cur, n) =>
                      change_log = <<[username |-> cur[IndexOf(cur, n)].owner,
                                      filename |-> n, action |-> "modify"]>>
C3_Witness ==
    /\ Compared
    /\ Len(last_monitor.scanned) = 2
    /\ \E n \in Names :
          /\ OnlyNewer(last_monitor.before.items, last_monitor.scanned, n)
          /\ Len(change_log) = 1 /\ change_log[1].filename = n
          /\ change_log[1].action = "modify"

\* C4: exactly one created record per name in current and not in previous,
\* exactly one deleted record per name in previous and not in current, no
\* other such record; created, deleted, modified and unchanged names are
\* pairwise disjoint and cover the names of both inventories.
C4_CreatedDeletedPartition ==
    Compared =>
        LET prev == FileNames(last_monitor.before.items)
            cur == FileNames(last_monitor.scanned)
            unchanged == {n \in prev \cap cur :
                            StampOf(last_monitor.scanned, n)
                                <= StampOf(last_monitor.before.items, n)}
        IN  /\ \A n \in Names :
                  /\ TimesLogged(n, "create") = IF n \in cur \ prev THEN 1 ELSE 0
                  /\ TimesLogged(n, "delete") = IF n \in prev \ cur THEN 1 ELSE 0
            /\ Logged("create") \cap Logged("delete") = {}
            /\ Logged("create") \cap Logged("modify") = {}
            /\ Logged("delete") \cap Logged("modify") = {}
            /\ unchanged \cap (Logged("create") \cup Logged("delete")
                                  \cup Logged("modify")) = {}
            /\ Logged("create") \cup Logged("delete") \cup Logged("modify")
                  \cup unchanged = prev \cup cur
C4_Witness ==
    /\ Compared
    /\ Logged("create") # {} /\ Logged("delete") # {}
    /\ Len(change_log) = 2

\* C5: when the scan fails, detect returns FAILURE, logs nothing and leaves
\* the stored inventory as it was.
C5_ScanFailureKeepsPrevious ==
    (last_monitor.called /\ last_monitor.scan_rc # SUCCESS)
        => /\ last_monitor.rc = FAILURE
           /\ change_log = <<>>
           /\ previous_files = last_monitor.before
C5_Witness ==
    /\ last_monitor.called /\ last_monitor.scan_rc = FAILURE
    /\ last_monitor.rc = FAILURE
    /\ ~previous_files.null /\ Len(previous_files.items) = 2

\* C6: within one detect, the created and modified records come first, in
\* the order of the current inventory, and the deleted records follow, in
\* the order of the previous inventory.
C6_EmissionOrder ==
    Compared =>
        LET prev == last_monitor.before.items
            cur == last_monitor.scanned
        IN  \A i, j \in 1..Len(change_log) :
                i < j =>
                    /\ ~(change_log[i].action = "delete"
                           /\ change_log[j].action # "delete")
                    /\ (change_log[i].action # "delete" /\ change_log[j].action # "delete")
                          => IndexOf(cur, change_log[i].filename)
                                < IndexOf(cur, change_log[j].filename)
                    /\ (change_log[i].action = "delete" /\ change_log[j].action = "delete")
                          => IndexOf(prev, change_log[i].filename)
                                < IndexOf(prev, change_log[j].filename)
C6_Witness ==
    /\ Compared
    /\ Len(change_log) = 2
    /\ change_log[1].action # "delete"
    /\ change_log[2].action = "delete"

(***************************************************************************)
(* Properties of daemon_main_loop (checked under Spec and SpecLive).       *)
(***************************************************************************)
IsPrefix(s, t) == Len(s) <= Len(t) /\ \A i \in 1..Len(s) : s[i] = t[i]

\* the operations of one kind of run made so far in this iteration, in order
RunCalls(run) == SelectSeq(trace, LAMBDA c : c.run = run)
RunOps(run) == [i \in 1..Len(RunCalls(run)) |-> RunCalls(run)[i].op]

PipelineOps == <<"lock", "transfer", "check_missing", "backup", "unlock">>
PipelinePcs == <<"lock", "transfer", "check_missing", "backup", "unlock",
                 "reset_transfer">>
ManualOps == <<"lock", "backup", "unlock", "reset">>
ManualPcs == <<"manual_lock", "manual_backup", "manual_unlock", "reset_backup">>

InPipeline == \E k \in 1..Len(PipelinePcs) : pc = PipelinePcs[k]
InManual == \E k \in 1..Len(ManualPcs) : pc = ManualPcs[k]
Scheduled(t) == tm_hour(t) = TRANSFER_HOUR /\ tm_min(t) = TRANSFER_MINUTE
Unlocked == upload_mode = UPLOAD_PERMISSIONS /\ dashboard_mode = DASHBOARD_PERMISSIONS

\* C1: when a pipeline run or a forced-backup run has ended, and whenever the
\* daemon sleeps or has exited, both directories are in the UNLOCKED
\* permission state.
C1_UnlockedWhenRunEnds ==
    pc \in {"reset_transfer", "reset_backup", "sleep", "exited"} => Unlocked

\* C7: the steps of a pipeline run are lock, transfer, check_missing, backup,
\* unlock, in that order and once each, whatever each of them returned: while
\* the run is at its k-th step the k-1 steps before it have been made, and
\* after the run all five have.
C7_PipelineOrder ==
    /\ \A k \in 1..Len(PipelinePcs) :
          pc = PipelinePcs[k] => RunOps("transfer") = SubSeq(PipelineOps, 1, k - 1)
    /\ ~InPipeline => RunOps("transfer") \in {<<>>, PipelineOps}

\* a run in which transfer_reports() failed has reached its end
C7_Witness ==
    /\ pc = "reset_transfer"
    /\ RunOps("transfer") = PipelineOps
    /\ RunCalls("transfer")[2].rc = FAILURE
    /\ RunCalls("transfer")[4].op = "backup"

\* C8: an iteration that read force_transfer clear runs the pipeline if and
\* only if the hour and minute it read are TRANSFER_HOUR and TRANSFER_MINUTE.
C8_ScheduledTrigger ==
    obs.ft = 0 => ((InPipeline \/ RunOps("transfer") # <<>>) <=> Scheduled(now))

\* the pipeline has run at 01:00 with no request pending
C8_Witness ==
    /\ obs.ft = 0
    /\ Scheduled(now)
    /\ pc = "check_monitor"
    /\ RunOps("transfer") = PipelineOps

\* C9: an iteration that reads force_transfer set outside the scheduled
\* minute runs the whole pipeline; no more runs are started outside the
\* scheduled minute than requests were made; the flag is clear once every
\* request has been answered by such a run; and a pending request is
\* answered by a run as long as the daemon is not told to exit.
C9_Safe ==
    /\ forced <= requests
    /\ (obs.ft = 1 /\ ~Scheduled(now)) =>
          /\ InPipeline \/ RunOps("transfer") = PipelineOps
          /\ forced >= 1
    /\ (forced = requests /\ ~InPipeline) => force_transfer = 0

C10_State ==
    /\ obs.fb1 # 2 =>
          ((pc = "monitor" \/ RunOps("monitor") # <<>>)
              <=> (now - obs.last >= CHECK_INTERVAL \/ obs.fb1 = 1))
    /\ Len(RunOps("monitor")) <= 1
    /\ obs.fb2 = 1 =>
          /\ RunOps("monitor") = <<"monitor">>
          /\ \A k \in 1..Len(ManualPcs) :
                pc = ManualPcs[k] => RunOps("manual") = SubSeq(ManualOps, 1, k - 1)
          /\ ~InManual => RunOps("manual") = ManualOps
    /\ obs.fb2 # 1 => (~InManual /\ RunOps("manual") = <<>>)

C10_MonitorAndForcedBackup ==
    /\ []C10_State
    /\ [][pc = "reset_backup" /\ pc' # pc => force_backup' = 0]_vars

\* detection ran because exactly CHECK_INTERVAL seconds had passed, with no
\* request, and no backup followed
C10_Witness ==
    /\ pc = "sleep"
    /\ obs.fb1 = 0 /\ obs.fb2 = 0
    /\ obs.last > 0
    /\ now - obs.last = CHECK_INTERVAL
    /\ RunOps("monitor") = <<"monitor">>
    /\ RunOps("manual") = <<>>


(***************************************************************************)
(* Properties of the daemon's life cycle (SpecMain, SpecMainLive) and of   *)
(* its signal handling and error handling (Spec, SpecLive).                *)
(***************************************************************************)
LoopPcs ==
    {"while", "time", "check_transfer", "lock", "transfer", "check_missing",
     "backup", "unlock", "reset_transfer", "check_monitor", "monitor",
     "check_backup", "manual_lock", "manual_backup", "manual_unlock",
     "reset_backup", "sleep"}

\* C11: once daemon_exit is set the loop test starts no further iteration;
\* daemon_cleanup runs once, and only after the loop; and, each step
\* terminating, a run in progress reaches its unlock and its end, and the
\* process reaches STOPPED with main() returning EXIT_SUCCESS.
C11_Safe ==
    /\ cleanups <= 1
    /\ cleanups = 1 <=> pc = "stopped"
    /\ pc = "stopped" =>
          /\ daemon_exit = 1
          /\ exit_status = "EXIT_SUCCESS"
          /\ fifo_fd = FALSE
          /\ faults = 0 => (~pid_file /\ ~fifo)
          /\ RunOps("transfer") \in {<<>>, PipelineOps}
          /\ RunOps("manual") \in {<<>>, ManualOps}

C11_ShutdownCompletes ==
    /\ []C11_Safe
    /\ [][daemon_exit = 1 /\ pc = "while" => pc' \in {"while", "exited"}]_vars
    /\ (daemon_exit = 1 /\ InPipeline) ~> (pc = "reset_transfer")
    /\ (daemon_exit = 1 /\ InManual) ~> (pc = "sleep")
    /\ (daemon_exit = 1 /\ pc \in LoopPcs) ~> (pc = "stopped")

\* the daemon has stopped after an iteration that ran the whole pipeline
C11_Witness ==
    /\ pc = "stopped"
    /\ cleanups = 1
    /\ RunOps("transfer") = PipelineOps
    /\ ~pid_file /\ ~fifo

\* C12: the delivery of a signal changes nothing but one flag, which it
\* sets: the position of the loop, the calls made, the directories and their
\* permissions stay as they are; and between the lock of one run and its
\* unlock no call of the other run is made.
C12_OneRun ==
    \A i, j \in 1..Len(trace) :
        (i < j /\ trace[i].op = "lock" /\ trace[j].run # trace[i].run
              /\ trace[j].run # "monitor")
            => \E k \in (i + 1)..(j - 1) :
                   trace[k].op = "unlock" /\ trace[k].run = trace[i].run

C12_Delivery ==
    signals' # signals =>
        /\ pc' = pc /\ trace' = trace
        /\ UNCHANGED <<dirs, modes, engine>>
        /\ \/ UNCHANGED flags
           \/ daemon_exit' = 1 /\ UNCHANGED <<force_backup, force_transfer>>
           \/ force_backup' = 1 /\ UNCHANGED <<daemon_exit, force_transfer>>
           \/ force_transfer' = 1 /\ UNCHANGED <<daemon_exit, force_backup>>

C12_SignalsOnlySetFlags ==
    /\ []C12_OneRun
    /\ [][C12_Delivery]_vars

\* SIGUSR1 has been delivered while the pipeline was between lock and unlock
\* and the pipeline has gone on to its backup
C12_Witness ==
    /\ pc = "unlock"
    /\ force_backup = 1
    /\ obs.ft = 0
    /\ signals = 1
    /\ RunOps("transfer") = SubSeq(PipelineOps, 1, 4)

\* a call of this iteration has failed (check_missing_reports: cannot open)
HasFailure ==
    \E i \in 1..Len(trace) :
        \/ trace[i].rc = FAILURE
        \/ trace[i].op = "check_missing" /\ trace[i].rc = ALL_MISSING

\* C13: the loop is left only with daemon_exit set, and an iteration in
\* which a call failed is followed by the next one unless a shutdown
\* request is delivered.
C13_LoopSurvivesFailure ==
    /\ [](pc = "exited" => daemon_exit = 1)
    /\ [][HasFailure /\ daemon_exit = 0 /\ pc = "while" => pc' \in {"while", "time"}]_vars
    /\ (HasFailure /\ pc \in LoopPcs) ~> (pc = "time" \/ daemon_exit = 1)

\* the iteration after one in which a detection failed has started
C13_Witness ==
    /\ pc = "time"
    /\ daemon_exit = 0
    /\ \E i \in 1..Len(trace) : trace[i].op = "monitor" /\ trace[i].rc = FAILURE

\* C14: when daemon_init finds another instance, cannot create the PID file
\* or cannot set up IPC, main() returns EXIT_FAILURE and nothing of the loop
\* has run or will run; the loop runs only after a daemon_init without error.
C14_StartupFatal ==
    /\ startup_error # "none" =>
          /\ pc = "failed"
          /\ exit_status = "EXIT_FAILURE"
          /\ trace = <<>> /\ obs = NoObs /\ now = 0
          /\ ~last_monitor.called /\ previous_files = NullFiles
          /\ backups = <<>> /\ upload = Uploaded /\ dashboard = EmptyDir
          /\ cleanups = 0
    /\ pc \in LoopPcs \cup {"exited", "stopped"} => startup_error = "none"
    /\ pc = "failed" => startup_error # "none"

\* IPC setup has failed after the PID file was written
C14_Witness ==
    /\ startup_error = "ipc"
    /\ pc = "failed"
    /\ exit_status = "EXIT_FAILURE"
    /\ pid_file

(***************************************************************************)
(* transfer_reports, under SpecTransfer.  last_call keeps the directories  *)
(* the call found, the outcome of every move and the order of readdir.     *)
(***************************************************************************)
TransferDone == last_call.op = "transfer" /\ last_call.opened

\* file n of the upload directory the call found is now in the dashboard
\* directory, with its bytes, and no longer in the upload directory
Transferred(n) ==
    /\ upload[n] = NoFile
    /\ dashboard[n].kind = "file"
    /\ dashboard[n].data = last_call.upload[n].data

\* C15: transfer_reports returns SUCCESS exactly when every matched file of
\* the upload directory was transferred and FAILURE as soon as one move
\* failed; a failed move stops nothing: every matched file is attempted, and
\* every file whose move succeeded is in the dashboard directory and stays
\* there whatever happened to the others.
C15_PartialTransfer ==
    TransferDone =>
        LET matched == Matched(last_call.upload)
        IN  /\ last_call.attempted = Cardinality(matched)
            /\ last_call.rc = SUCCESS <=> \A n \in matched : Transferred(n)
            /\ (\E n \in matched : ~Moved(last_call.how[n])) => last_call.rc = FAILURE
            /\ \A n \in matched : Moved(last_call.how[n]) => Transferred(n)
            /\ \A n \in matched : ~Moved(last_call.how[n]) =>
                                     upload[n] = last_call.upload[n]

\* the first file readdir gave could not be moved, the next one was
C15_Witness ==
    /\ TransferDone
    /\ Len(last_call.order) = 2
    /\ ~Moved(last_call.how[last_call.order[1]])
    /\ Moved(last_call.how[last_call.order[2]])
    /\ Transferred(last_call.order[2])
    /\ last_call.rc = FAILURE

\* C16: after a transfer that returned SUCCESS, every regular file the
\* upload directory held under a name with the report extension is in the
\* dashboard directory under that name with the same bytes and is gone
\* from the upload directory, moved by rename or by copy and unlink.
C16_RoundTrip ==
    (TransferDone /\ last_call.rc = SUCCESS) =>
        \A n \in Names :
            (last_call.upload[n].kind = "file" /\ HasExtension(n)) =>
                /\ dashboard[n].kind = "file"
                /\ dashboard[n].data = last_call.upload[n].data
                /\ upload[n].kind = "none"

\* one file renamed, one copied over an older file of the dashboard directory
C16_Witness ==
    /\ TransferDone
    /\ last_call.rc = SUCCESS
    /\ \E a, b \in Matched(last_call.upload) :
          /\ last_call.how[a] = "renamed"
          /\ last_call.how[b] = "copied"
          /\ last_call.dashboard[b].kind = "file"
          /\ last_call.dashboard[b].data # last_call.upload[b].data
          /\ dashboard[b].data = last_call.upload[b].data

\* C17: a transfer that opens an upload directory with no matching file
\* attempts nothing, returns SUCCESS, leaves both directories as they were
\* and logs nothing; so do two such calls in a row.
C17_NothingToTransfer ==
    (TransferDone /\ Matched(last_call.upload) = {}) =>
        /\ last_call.attempted = 0
        /\ last_call.rc = SUCCESS
        /\ upload = last_call.upload
        /\ dashboard = last_call.dashboard
        /\ change_log = <<>>
        /\ (last_call.prev.op = "transfer" /\ last_call.prev.opened
               /\ last_call.prev.attempted = 0) => last_call.prev.rc = SUCCESS

\* the second of two calls that both found nothing to transfer
C17_Witness ==
    /\ TransferDone
    /\ Matched(last_call.upload) = {}
    /\ last_call.attempted = 0
    /\ last_call.rc = SUCCESS
    /\ last_call.prev.op = "transfer"
    /\ last_call.prev.opened
    /\ last_call.prev.attempted = 0
    /\ last_call.prev.rc = SUCCESS
    /\ \E n \in Names : dashboard[n].kind = "file"

(***************************************************************************)
(* backup_dashboard, under SpecBackup.  last_call keeps the dashboard      *)
(* directory and the backups the call found, the second it read and the    *)
(* files whose copy_file would succeed.                                    *)
(***************************************************************************)
BackupDone == last_call.op = "backup"
\* the regular files the call found in the dashboard directory
BackedUpFrom == BackupFiles(last_call.dashboard)
\* the files whose copy_file returned SUCCESS (success_count of them)
Succeeded == IF last_call.made /\ last_call.opened
             THEN BackedUpFrom \cap last_call.copied ELSE {}
\* entry n of the backup directory of this call is a complete copy
CompleteCopy(n) ==
    /\ backups[last_call.t][n].kind = "file"
    /\ backups[last_call.t][n].data = last_call.dashboard[n].data

\* C18: backup_dashboard returns SUCCESS when every file of the dashboard
\* directory was copied and SUCCESS when some but not all were; it returns
\* FAILURE only when no file was copied or the backup directory could not be
\* created, and always when the directory could not be created.
C18_BackupResult ==
    BackupDone =>
        /\ (last_call.made /\ last_call.opened /\ Succeeded = BackedUpFrom)
              => last_call.rc = SUCCESS
        /\ Succeeded # {} => last_call.rc = SUCCESS
        /\ last_call.rc = FAILURE => (Succeeded = {} \/ ~last_call.made)
        /\ ~last_call.made => last_call.rc = FAILURE

\* some copies succeeded, one failed, and the call returned SUCCESS
C18_Witness ==
    /\ BackupDone
    /\ Succeeded # {}
    /\ Succeeded # BackedUpFrom
    /\ last_call.rc = SUCCESS

\* C19: a backup that created its directory and read the dashboard
\* directory leaves the dashboard directory and the older backups as they
\* were and fills a directory that did not exist; when each of the N copies
\* succeeds that directory holds exactly the N regular files, each with the
\* bytes of its source; when K > 0 of them succeed it holds those K complete
\* copies and the call returns SUCCESS.
C19_BackupComplete ==
    (BackupDone /\ last_call.made /\ last_call.opened) =>
        /\ dashboard = last_call.dashboard
        /\ last_call.t \notin DOMAIN last_call.backups
        /\ last_call.t \in DOMAIN backups
        /\ \A u \in DOMAIN last_call.backups : backups[u] = last_call.backups[u]
        /\ Succeeded = BackedUpFrom =>
              /\ last_call.rc = SUCCESS
              /\ {n \in Names : backups[last_call.t][n].kind # "none"} = BackedUpFrom
              /\ \A n \in BackedUpFrom : CompleteCopy(n)
        /\ Succeeded # {} =>
              /\ last_call.rc = SUCCESS
              /\ \A n \in Succeeded : CompleteCopy(n)

\* a second backup, of two files or more, every copy succeeding, next to
\* the directory of the first
C19_Witness ==
    /\ BackupDone /\ last_call.made /\ last_call.opened
    /\ Cardinality(BackedUpFrom) >= 2
    /\ Succeeded = BackedUpFrom
    /\ \A n \in BackedUpFrom : CompleteCopy(n)
    /\ last_call.prev.op = "backup"
    /\ Cardinality(DOMAIN backups) = 2

(***************************************************************************)
(* lock_directories and unlock_directories in the loop, under Spec.        *)
(* obs.perm keeps, for each of their calls of this iteration, whether the  *)
(* chmod of the upload and of the dashboard directory succeeded.           *)
(***************************************************************************)
PermCalls == SelectSeq(trace, LAMBDA c : c.op \in {"lock", "unlock"})
LastCallIs(op) == trace # <<>> /\ trace[Len(trace)].op = op
LastPerm == obs.perm[Len(obs.perm)]

\* C20: lock_directories and unlock_directories change the mode of each
\* directory whose chmod succeeds, the second one also when the first
\* failed, and return FAILURE exactly when one of the two failed; a
\* pipeline run whose lock returned FAILURE still calls transfer,
\* check_missing and backup, and unlock after them.
C20_LockBestEffort ==
    /\ Len(PermCalls) = Len(obs.perm)
    /\ \A i \in 1..Len(PermCalls) :
          PermCalls[i].rc = SUCCESS <=> (obs.perm[i][1] /\ obs.perm[i][2])
    /\ LastCallIs("lock") =>
          /\ LastPerm[1] => upload_mode = LOCKED_PERMISSIONS
          /\ LastPerm[2] => dashboard_mode = LOCKED_PERMISSIONS
    /\ LastCallIs("unlock") =>
          /\ LastPerm[1] => upload_mode = UPLOAD_PERMISSIONS
          /\ LastPerm[2] => dashboard_mode = DASHBOARD_PERMISSIONS
    /\ \A k \in 2..Len(PipelinePcs) :
          (pc = PipelinePcs[k] /\ RunCalls("transfer")[1].rc = FAILURE)
              => RunOps("transfer") = SubSeq(PipelineOps, 1, k - 1)
    /\ (~InPipeline /\ RunCalls("transfer") # <<>>
           /\ RunCalls("transfer")[1].rc = FAILURE)
          => RunOps("transfer") = PipelineOps

\* the chmod of the upload directory failed in the lock of a pipeline run,
\* that of the dashboard directory was made, and the run has gone to its end
C20_Witness ==
    /\ pc = "reset_transfer"
    /\ RunOps("transfer") = PipelineOps
    /\ RunCalls("transfer")[1].rc = FAILURE
    /\ obs.perm[1] = <<FALSE, TRUE>>
    /\ RunCalls("transfer")[5].rc = SUCCESS
    /\ Unlocked

(***************************************************************************)
(* check_missing_reports in the pipeline, under SpecMissing.               *)
(***************************************************************************)
\* the department whose report each name of the model is, by its place in
\* department_reports; 0 for a name that is no department's report
Carries(n) ==
    CASE n = "report_Warehouse.xml" -> 1
      [] n = "report_manufacturing_2.xml" -> 2
      [] n = "report_Sales_1.xml" -> 3
      [] n = "report_Distribution_1.xml" -> 4
      [] OTHER -> 0

\* how many departments have no report in the dashboard directory
MissingNow ==
    Cardinality({i \in 1..4 :
        ~\E n \in Names : dashboard[n].kind = "file" /\ Carries(n) = i})

MissingChecked == Len(trace) >= 3 /\ trace[3].op = "check_missing"

\* C21 as stated: the check returns the number of departments that have no
\* report in the dashboard directory, 0 when all four have one.
C21_CountsMissing == MissingChecked => trace[3].rc = MissingNow

\* C21: check_missing_reports returns the number of departments that have
\* no report in the dashboard directory when it can open that directory, 0
\* when all four have one, and 4 when it cannot open it; whatever it
\* returns, backup_dashboard and unlock_directories follow.
C21_CountsMissingWhenOpened ==
    /\ (pc = "backup" /\ faults = 0) => trace[3].rc = MissingNow
    /\ (pc = "backup" /\ faults # 0) => trace[3].rc = ALL_MISSING
    /\ MissingChecked => trace[3].rc \in {MissingNow, ALL_MISSING}
    /\ \A k \in 3..Len(PipelinePcs) :
          pc = PipelinePcs[k] => RunOps("transfer") = SubSeq(PipelineOps, 1, k - 1)
    /\ pc = "check_monitor" => RunOps("transfer") = PipelineOps

\* every department has its report, the check returned 0 and the run ended
C21_Witness ==
    /\ pc = "check_monitor"
    /\ RunOps("transfer") = PipelineOps
    /\ MissingNow = 0
    /\ trace[3].rc = 0
    /\ dashboard["report_manufacturing_2.xml"].kind = "file"

(***************************************************************************)
(* extract_department_from_filename, under SpecExtract.                    *)
(***************************************************************************)
Extracted == last_call.op = "extract"
StartsWithPrefix(f) ==
    Len(f) >= Len(REPORT_PREFIX) /\ \A i \in 1..Len(REPORT_PREFIX) : f[i] = REPORT_PREFIX[i]
\* what follows the prefix
AfterPrefix(f) == [i \in 1..(Len(f) - Len(REPORT_PREFIX)) |-> f[i + Len(REPORT_PREFIX)]]
\* t stands in s right after the first k characters
At(s, k, t) == k + Len(t) <= Len(s) /\ \A i \in 1..Len(t) : s[k + i] = t[i]
\* the k characters before the first place of s at which t stands
UpToFirst(s, t, label) ==
    /\ At(s, Len(label), t)
    /\ \A i \in 1..Len(label) : label[i] = s[i]
    /\ \A k \in 0..(Len(label) - 1) : ~At(s, k, t)

\* C22: extract_department_from_filename gives no label for a name that
\* does not start with report_; for a name that does, the label is what
\* stands between the prefix and the first underscore after it, or, with
\* no underscore, what stands between the prefix and the first .xml; so
\* report_Sales_2024-01-01.xml and report_Sales.xml give Sales and
\* invoice_2024.xml gives none.
C22_DepartmentLabel ==
    Extracted =>
        LET f == last_call.filename
            r == last_call.result
            rest == AfterPrefix(f)
        IN  /\ ~StartsWithPrefix(f) => ~r.found
            /\ (StartsWithPrefix(f) /\ \E i \in 1..Len(rest) : rest[i] = "_")
                  => (r.found /\ UpToFirst(rest, <<"_">>, r.label))
            /\ (StartsWithPrefix(f) /\ (\A i \in 1..Len(rest) : rest[i] # "_")
                   /\ \E k \in 0..Len(rest) : At(rest, k, REPORT_EXTENSION))
                  => (r.found /\ UpToFirst(rest, REPORT_EXTENSION, r.label))
            /\ f \in {Sales20240101, SalesUndated}
                  => (r.found /\ r.label = <<"S", "a", "l", "e", "s">>)
            /\ f = Invoice2024 => ~r.found

\* a name with two underscores after the prefix: the label ends at the first
C22_Witness ==
    /\ Extracted
    /\ StartsWithPrefix(last_call.filename)
    /\ last_call.result.found
    /\ last_call.result.label = <<"S">>
    /\ Cardinality({i \in 1..Len(last_call.filename) : last_call.filename[i] = "_"}) = 3

(***************************************************************************)
(* receive_ipc_message and create_reporting_process, under SpecIpc.        *)
(***************************************************************************)
Received == last_call.op = "receive"
ReadOutcomes == {"message", "empty", "partial", "error"}

\* C23 as stated: an empty channel, a failed read and a partial record are
\* told apart by the return value.
C23_ThreeOutcomes ==
    (Received /\ last_call.prev.op = "receive"
       /\ last_call.outcome \in ReadOutcomes /\ last_call.prev.outcome \in ReadOutcomes
       /\ last_call.outcome # last_call.prev.outcome)
      => last_call.rc # last_call.prev.rc

\* C23: receive_ipc_message returns at once; it returns SUCCESS when it
\* read a whole record, which is the oldest message when the FIFO begins
\* with one, and FAILURE when the FIFO is empty (nothing consumed), when
\* fewer units than a record were read (they are consumed) and when the
\* read failed or the FIFO is not open: the return value tells a message
\* from the rest and nothing more.
C23_ReceiveOutcomes ==
    /\ ENABLED Receive
    /\ Received =>
          /\ last_call.rc \in {SUCCESS, FAILURE}
          /\ last_call.rc = SUCCESS <=> last_call.outcome = "message"
          /\ last_call.outcome = "message" =>
                /\ Len(last_call.found) >= RecordUnits
                /\ last_call.left = SubSeq(last_call.found, RecordUnits + 1,
                                           Len(last_call.found))
                /\ fifo_fd
                /\ \A m \in {last_call.found[1].msg} :
                      SubSeq(last_call.found, 1, RecordUnits) = Record(m)
                          => last_call.msg = m
          /\ last_call.outcome = "empty" =>
                last_call.found = <<>> /\ last_call.left = <<>>
          /\ last_call.outcome = "partial" =>
                /\ Len(last_call.found) \in 1..(RecordUnits - 1)
                /\ last_call.left = <<>>
          /\ last_call.outcome = "closed" <=> ~fifo_fd

\* a read of a fragment after a read of the empty FIFO: FAILURE both times
C23_Witness ==
    /\ Received
    /\ last_call.outcome = "partial"
    /\ last_call.rc = FAILURE
    /\ last_call.prev.op = "receive"
    /\ last_call.prev.outcome = "empty"
    /\ last_call.prev.rc = FAILURE

WorkerStarted == worker.pc \in {"run", "send", "exit", "exited"}

\* C24: the child of create_reporting_process calls the work function once,
\* then send_ipc_message once, with a message whose type is the one asked
\* for, whose sender_pid is the child's pid and whose status is the
\* function's result, then exits with the status of that result; the
\* parent has the child's pid as soon as fork returns and goes on while the
\* child runs.
C24_WorkerReportsOnce ==
    /\ WorkerStarted => (worker.ret = worker.pid /\ worker.pid # DaemonPid)
    /\ worker.pc = "run" => (worker.runs = 0 /\ worker.sends = 0)
    /\ worker.pc = "send" => (worker.runs = 1 /\ worker.sends = 0)
    /\ worker.pc \in {"exit", "exited"} => (worker.runs = 1 /\ worker.sends = 1)
    /\ (WorkerStarted /\ worker.wrote # "nothing") =>
          /\ worker.sent.type = worker.msg_type
          /\ worker.sent.sender_pid = worker.pid
          /\ worker.sent.status = worker.result
    /\ (WorkerStarted /\ worker.wrote = "nothing") => worker.sent = NoMessage
    /\ worker.pc = "exited" =>
          worker.status = IF worker.result = SUCCESS THEN "EXIT_SUCCESS"
                          ELSE "EXIT_FAILURE"
    /\ pc = "while" /\ trace = <<>>

\* the parent has read the message of a child whose work failed, after a
\* receive it made while the child was still at work
C24_Witness ==
    /\ worker.pc = "exited"
    /\ worker.wrote = "full"
    /\ worker.result = FAILURE
    /\ Received
    /\ last_call.outcome = "message"
    /\ last_call.msg = worker.sent
    /\ last_call.msg.status = FAILURE
    /\ last_call.prev.op = "receive"
    /\ last_call.prev.outcome = "empty"

Scanned == last_call.op = "scan"
ScannedNames == {last_call.files[i].filename : i \in 1..Len(last_call.files)}
Hidden(n) == Chars(n)[1] = "."

\* C25: a scan of a directory that was opened returns SUCCESS and exactly
\* one snapshot, with the modification time of the file, for every entry
\* that is neither hidden nor a directory and whose stat succeeded, the
\* stat of other entries failing or not; a directory that cannot be opened
\* gives FAILURE and no snapshot (and so does a failed malloc).
C25_ScanSkipsUnreadable ==
    Scanned =>
       /\ ~last_call.opened => (last_call.rc = FAILURE /\ last_call.files = <<>>)
       /\ ~last_call.alloc_ok => (last_call.rc = FAILURE /\ last_call.files = <<>>)
       /\ (last_call.opened /\ last_call.alloc_ok) =>
             /\ last_call.rc = SUCCESS
             /\ ScannedNames = {n \in last_call.readable :
                                  upload[n].kind = "file" /\ ~Hidden(n)}
             /\ Len(last_call.files) = Cardinality(ScannedNames)
             /\ \A i \in 1..Len(last_call.files) :
                   last_call.files[i].timestamp =
                       upload[last_call.files[i].filename].mtime

\* a directory with a hidden file and a subdirectory, the stat of the
\* invoice fails, the report is returned
C25_Witness ==
    /\ Scanned
    /\ last_call.rc = SUCCESS
    /\ upload[".tmp.xml"].kind = "file"
    /\ upload["old.xml"].kind = "dir"
    /\ upload["invoice.xml"].kind = "file"
    /\ "invoice.xml" \notin last_call.readable
    /\ ScannedNames = {"report_Sales_1.xml"}

\* C26 as stated: the department of every snapshot of a scan is the label
\* extracted from its filename or the empty label.
C26_DepartmentOrEmpty ==
    Scanned =>
       \A i \in 1..Len(last_call.files) :
          LET d == extract_department_from_filename(Chars(last_call.files[i].filename))
          IN  \/ last_call.files[i].department = <<>>
              \/ d.found /\ last_call.files[i].department = d.label

\* the places of change_log that hold a "transfer" record of file n
TransferRecords(n) ==
    {i \in 1..Len(change_log) :
        change_log[i].filename = n /\ change_log[i].action = "transfer"}

\* C27 as stated: a call of transfer_reports writes exactly one "transfer"
\* record, with the owner of the file (its name, or its numeric identity
\* when it has no name), for every file it moved, and none for a file
\* whose move failed.
C27_OneTransferRecord ==
    TransferDone =>
       \A n \in Matched(last_call.upload) :
          IF Moved(last_call.how[n])
          THEN /\ Cardinality(TransferRecords(n)) = 1
               /\ \A i \in TransferRecords(n) :
                     change_log[i].username = OwnerName(dashboard[n].uid)
          ELSE TransferRecords(n) = {}

Detected == last_monitor.called /\ last_monitor.rc = SUCCESS

\* C28 as stated, its first two parts: after a successful call the stored
\* inventory is the one the call scanned, and a successful call that
\* follows a successful call, with no change to the upload directory in
\* between, logs nothing.
C28_QuietRescan ==
    /\ Detected => previous_files = Stored(last_monitor.scanned)
    /\ (Compared /\ input.quiet) => change_log = <<>>

\* the snapshot of name n in an inventory, as a set: empty when there is none
SnapshotsOf(files, n) == {files[i] : i \in {j \in 1..Len(files) : files[j].filename = n}}
\* the places of change_log that hold a record of file n
RecordsOf(n) == {i \in 1..Len(change_log) : change_log[i].filename = n}
\* what the comparison of the two inventories has to say about name n
Difference(n) ==
    LET cur == SnapshotsOf(last_monitor.scanned, n)
        prev == SnapshotsOf(last_monitor.before.items, n)
    IN  CASE cur # {} /\ prev = {} -> {"create"}
          [] cur = {} /\ prev # {} -> {"delete"}
          [] cur # {} /\ prev # {} /\
                (\E c \in cur, p \in prev : c.timestamp > p.timestamp) -> {"modify"}
          [] OTHER -> {}

\* C28: after a successful call the stored inventory is the one the call
\* scanned; a successful call whose scan returns the files of the stored
\* inventory logs nothing; and every difference between the stored
\* inventory and the scanned one (a name in one of them only, a later
\* modification time) is logged by that call, in one record.
C28_DifferencesOnce ==
    /\ Detected => previous_files = Stored(last_monitor.scanned)
    /\ Compared =>
          /\ (\A n \in Names : SnapshotsOf(last_monitor.scanned, n)
                                 = SnapshotsOf(last_monitor.before.items, n))
                => change_log = <<>>
          /\ \A n \in Names :
                /\ Cardinality(RecordsOf(n)) = Cardinality(Difference(n))
                /\ \A i \in RecordsOf(n) : change_log[i].action \in Difference(n)

\* nothing changed since the last successful call, which had not seen the
\* report; this call sees it and logs its creation
C28_Witness ==
    /\ Compared
    /\ input.quiet
    /\ Len(change_log) = 1
    /\ change_log[1].action = "create"
    /\ previous_files = Stored(last_monitor.scanned)
    /\ Len(last_monitor.scanned) = 1

\* the bytes file n had when the transfer started are in the upload
\* directory, the file untouched
InSource(n) == upload[n] = input.src[n]
\* the whole of them is in the dashboard directory
InDestination(n) ==
    dashboard[n].kind = "file" /\ dashboard[n].data = input.src[n].data
CallsOf(call) == {i \in 1..Len(input.calls) : input.calls[i][1] = call}

\* C29: move_file calls rename first and copy_file only after rename
\* failed, and unlink only after copy_file returned SUCCESS; at every point
\* of a transfer every matched file is whole in the upload directory or
\* whole in the dashboard directory, and a file whose move_file returned
\* FAILURE is in the upload directory as it was.
C29_SourceKeptUntilCopied ==
    input.op = "transfer" =>
       /\ \A n \in Matched(input.src) : InSource(n) \/ InDestination(n)
       /\ \A n \in input.failed : InSource(n)
       /\ input.failed \subseteq Matched(input.src)
       /\ input.calls # <<>> => input.calls[1][1] = "rename"
       /\ \A i \in CallsOf("copy") :
             i = 2 /\ input.calls[1] = <<"rename", FALSE>>
       /\ \A i \in CallsOf("unlink") :
             i = 3 /\ input.calls[2] = <<"copy", TRUE>>
       /\ \A i \in CallsOf("rename") : i = 1
       /\ (Reached("done") /\ input.rc = SUCCESS) => input.failed = {}

\* the transfer is over: one file was renamed, the copy of the other
\* failed half way and left a fragment in the dashboard directory
C29_Witness ==
    /\ Reached("done")
    /\ input.rc = FAILURE
    /\ \E a \in input.failed :
          /\ InSource(a)
          /\ dashboard[a].kind = "file" /\ dashboard[a].data = "partial"
    /\ \E b \in Matched(input.src) \ input.failed :
          upload[b] = NoFile /\ InDestination(b)

\* the backup directories made in the minute of the time the loop has read
BackupsThisMinute == {t \in DOMAIN backups : t \div 60 = now \div 60}

\* C30 as stated, seen from the backup directory: when no signal was ever
\* delivered, so that nothing was forced and every backup is the work of a
\* scheduled run, no scheduled run starts in a minute in which an earlier
\* run has already made its backup.
C30_OneRunPerScheduledMinute ==
    (pc = "lock" /\ signals = 0 /\ obs.ft = 0) => BackupsThisMinute = {}

\* the test of check_transfer is about to start a pipeline run
RunStarts == pc = "check_transfer" /\ TransferDue(now, force_transfer)
\* the test of check_backup is about to start a forced-backup run
BackupStarts == pc = "check_backup" /\ force_backup = 1
\* force_transfer is set and the run in progress, if any, started on a test
\* that read it clear: the request is younger than the run
TransferRequested ==
    force_transfer = 1 /\ daemon_exit = 0 /\ (InPipeline => obs.ft = 0)
BackupRequested ==
    force_backup = 1 /\ daemon_exit = 0 /\ ~InManual

BackupRuns == {i \in 1..Len(trace) : trace[i].op = "backup"}

\* C32 as stated: when no system call fails for a reason of its own, every
\* call of backup_dashboard of an iteration succeeds and the backup
\* directory holds a directory for each of them, also when the pipeline
\* run and the forced-backup run of one iteration read the same second.
C32_BackupOfItsOwn ==
    faults = 0 =>
       /\ \A i \in BackupRuns : trace[i].rc = SUCCESS
       /\ Cardinality(DOMAIN backups) >= Cardinality(BackupRuns)

\* the calls of the iteration made by the pipeline run, by the forced-backup
\* run, and the call of monitor_directory_changes
CallsOfRun(run) == {i \in 1..Len(trace) : trace[i].run = run}
\* monitor_directory_changes comes after every call of the pipeline run of
\* the iteration and before every call of its forced-backup run
DetectBetweenRuns ==
    /\ pc = "monitor" => CallsOfRun("manual") = {}
    /\ \A i \in CallsOfRun("monitor") :
          /\ \A j \in CallsOfRun("transfer") : j < i
          /\ \A j \in CallsOfRun("manual") : i < j
    /\ (InPipeline \/ InManual) => pc # "monitor"

\* C33 as stated: when monitor_directory_changes is about to scan, the
\* upload directory is not in the LOCKED permission state, and the call
\* lies between the pipeline run and the forced-backup run of the iteration.
C33_DetectOutsideLock ==
    /\ pc = "monitor" => upload_mode # LOCKED_PERMISSIONS
    /\ DetectBetweenRuns

=============================================================================
